---- MODULE Spec2Model ----
(***************************************************************************)
(* Financial document ingestion: the event-sourced processing state        *)
(* machine (status derivation, progress, retry eligibility), the retry     *)
(* and status HTTP handlers, the extraction and validation workers, and    *)
(* the validation engine, for one document.                                *)
(*                                                                         *)
(* Numbers: confidences are percentages (0.70 is 70); money values are     *)
(* whole numbers of 500 dollars.  An event is a record of its type, its    *)
(* timestamp (its place in the log, the log being kept in timestamp        *)
(* order) and the keys of its event_data payload.                          *)
(***************************************************************************)
EXTENDS Integers, Sequences, FiniteSets, TLC

VARIABLES
    document,          \* the uploaded document: its type and what extraction finds
    blob_exists,       \* whether the uploaded blob is still in Blob Storage
    log,               \* processing-logs container of the document, oldest first
    ingestion_queue,   \* ingestion-queue: delivery count of each waiting message
    extraction_queue,  \* extraction-queue: delivery count of each waiting message
    validation_queue,  \* validation-queue: delivery count of each waiting message
    metrics_store,     \* financial-metrics container of the document
    extraction_results, \* extraction-results container: one item per attempt
    ew,                \* extraction worker: its position and the message in hand
    vw,                \* validation worker: its position and the message in hand
    retry_inflight,    \* retry requests past the eligibility check, not yet enqueued
    accepted,          \* messages the retry handler has enqueued
    status_cache,      \* _status_cache entry of the document
    response,          \* the HTTP response sent in this step, if any
    budget,            \* what the environment may still do (faults, requests)
    vr,                \* a ValidationResult object
    fn                 \* the function under analysis: call, arguments, result

vars == << document, blob_exists, log, ingestion_queue, extraction_queue,
           validation_queue, metrics_store, extraction_results, ew, vw,
           retry_inflight, accepted, status_cache, response, budget, vr, fn >>

pipeline_vars ==
    << document, blob_exists, log, ingestion_queue, extraction_queue,
       validation_queue, metrics_store, extraction_results, ew, vw,
       retry_inflight, accepted, status_cache, response, budget >>

(***************************************************************************)
(* Bounds of the model.                                                    *)
(***************************************************************************)
MaxInputLen == 2        \* longest free-form event list drawn as an input
MaxMessages == 3        \* add_error / add_warning calls on one ValidationResult
MaxDeliveryCount == 2   \* deliveries of a queue message before it is dead-lettered
MaxFaults == 2          \* failing runs, failing log writes, loss of the blob
MaxRequests == 1        \* retry requests that pass the checks of the handler,
                        \* status requests answered from the log
TickSeconds == 5        \* seconds between two observations of the clock
MaxOutageRuns == 14     \* extraction runs that fail during an outage
MaxOutageRetries == 6   \* retry requests passing the checks during an outage
MaxRecoveryRetries == 4 \* retry requests passing the checks after one failure
MaxRecoveryQueries == 2 \* status queries answered from the log after one failure

(***************************************************************************)
(* Program constants.                                                      *)
(***************************************************************************)
LOG_QUERY_LIMIT == 20
MAX_RETRIES == 5
CACHE_TTL_SECONDS == 10
TOTAL_STAGES == 4
None == 0

Min(a, b) == IF a < b THEN a ELSE b
Max(a, b) == IF a > b THEN a ELSE b
Abs(a) == IF a < 0 THEN -a ELSE a

(***************************************************************************)
(* Processing events.                                                      *)
(***************************************************************************)
EventTypes ==
    { "queued", "ingestion_started", "extraction_started",
      "extraction_completed", "validation_started", "validation_completed",
      "retry_initiated", "failed", "duplicate_detected" }

\* The event types in a fixed order, used to enumerate input logs.
EventTypeOrder ==
    << "ingestion_started", "duplicate_detected", "queued",
       "extraction_started", "extraction_completed", "validation_started",
       "validation_completed", "failed", "retry_initiated" >>

\* Keys of event_data that the retry handler reads.  ingestion_started and
\* queued (process_ingestion) and extraction_started (extraction_worker)
\* carry document_name and document_type; no other event does.
MetadataKeys == { "document_name", "document_type" }

PayloadKeys(event_type) ==
    IF event_type \in { "ingestion_started", "queued", "extraction_started" }
    THEN MetadataKeys
    ELSE {}

Event(event_type, ts) ==
    [ event_type |-> event_type,
      event_timestamp |-> ts,
      event_data |-> PayloadKeys(event_type) ]

\* create_processing_log: the event is added with the current timestamp.
AppendLog(l, event_type) == Append(l, Event(event_type, Len(l) + 1))

\* query_processing_logs_by_document: ORDER BY event_timestamp DESC, and
\* OFFSET 0 LIMIT limit when a limit is given (None: the whole log).
QueryProcessingLogs(l, limit) ==
    LET n == Len(l)
        k == IF limit = None THEN n ELSE Min(n, limit)
    IN  [ i \in 1..k |-> l[n - i + 1] ]

EventTypesOf(processing_logs) ==
    { processing_logs[i].event_type : i \in 1..Len(processing_logs) }

(***************************************************************************)
(* status_handler: status, progress and timestamps from the queried logs.  *)
(***************************************************************************)
Stages ==
    << [ name |-> "upload", events |-> { "queued" } ],
       [ name |-> "ingestion", events |-> { "ingestion_started" } ],
       [ name |-> "extraction",
         events |-> { "extraction_started", "extraction_completed" } ],
       [ name |-> "validation",
         events |-> { "validation_started", "validation_completed" } ] >>

RECURSIVE CompletedStages(_, _)
CompletedStages(events, i) ==
    IF i > Len(Stages) THEN << >>
    ELSE IF Stages[i].events \cap events # {}
         THEN << Stages[i].name >> \o CompletedStages(events, i + 1)
         ELSE CompletedStages(events, i + 1)

\* Variant: the first completed stage reported as the current one.
CalculateProgress_FirstStage(events) ==
    LET completed_stages == CompletedStages(events, 1)
        n == Len(completed_stages)
    IN  [ current_stage |-> IF n = 0 THEN "queued" ELSE completed_stages[1],
          stages_completed |-> completed_stages,
          completion_percentage |-> (n * 100) \div TOTAL_STAGES ]

CalculateProgress(events) ==
    LET completed_stages == CompletedStages(events, 1)
        n == Len(completed_stages)
    IN  [ current_stage |-> IF n = 0 THEN "queued" ELSE completed_stages[n],
          stages_completed |-> completed_stages,
          completion_percentage |-> (n * 100) \div TOTAL_STAGES ]

\* The loop of _extract_timestamps over reversed(processing_logs): i runs from
\* the last element (the oldest event) to the first.
RECURSIVE ExtractTimestampsFrom(_, _, _)
ExtractTimestampsFrom(processing_logs, i, ts) ==
    IF i < 1 THEN ts
    ELSE
        LET e == processing_logs[i]
            t1 == IF e.event_type \in { "queued", "ingestion_started" }
                     /\ ts.uploaded_at = None
                  THEN [ ts EXCEPT !.uploaded_at = e.event_timestamp ]
                  ELSE ts
            t2 == IF e.event_type = "extraction_started"
                     /\ t1.started_processing_at = None
                  THEN [ t1 EXCEPT !.started_processing_at = e.event_timestamp ]
                  ELSE t1
            t3 == IF e.event_type = "validation_completed"
                  THEN [ t2 EXCEPT !.completed_at = e.event_timestamp ]
                  ELSE t2
        IN  ExtractTimestampsFrom(processing_logs, i - 1, t3)

ExtractTimestamps(processing_logs) ==
    ExtractTimestampsFrom(
        processing_logs, Len(processing_logs),
        [ uploaded_at |-> None, started_processing_at |-> None,
          completed_at |-> None ])

\* Variant: validation_completed tested before failed.
StatusOf_CompletedFirst(all_events) ==
    IF "validation_completed" \in all_events THEN "completed"
    ELSE IF "failed" \in all_events THEN "failed"
    ELSE IF "validation_started" \in all_events
            \/ "extraction_started" \in all_events THEN "processing"
    ELSE IF "queued" \in all_events \/ "ingestion_started" \in all_events
         THEN "queued"
    ELSE "unknown"

StatusOf(all_events) ==
    IF "failed" \in all_events THEN "failed"
    ELSE IF "validation_completed" \in all_events THEN "completed"
    ELSE IF "validation_started" \in all_events
            \/ "extraction_started" \in all_events THEN "processing"
    ELSE IF "queued" \in all_events \/ "ingestion_started" \in all_events
         THEN "queued"
    ELSE "unknown"

DetermineStatusFromLogs(processing_logs) ==
    LET all_events == EventTypesOf(processing_logs)
    IN  [ status |-> StatusOf(all_events),
          progress |-> CalculateProgress(all_events),
          timestamps |-> ExtractTimestamps(processing_logs) ]

(***************************************************************************)
(* retry_handler: eligibility from the queried logs.                       *)
(***************************************************************************)
\* The loop over reversed(processing_logs) that collects document_info: the
\* keys found so far, from the oldest queried event on, until both are found.
RECURSIVE ScanDocumentInfo(_, _, _)
ScanDocumentInfo(processing_logs, i, document_info) ==
    IF i < 1 THEN document_info
    ELSE
        LET found == document_info
                        \cup (processing_logs[i].event_data \cap MetadataKeys)
        IN  IF MetadataKeys \subseteq found THEN found
            ELSE ScanDocumentInfo(processing_logs, i - 1, found)

RetryInitiatedCount(processing_logs) ==
    Cardinality({ i \in 1..Len(processing_logs) :
                    processing_logs[i].event_type = "retry_initiated" })

Ineligible(reason, current_status) ==
    [ eligible |-> FALSE, reason |-> reason,
      current_status |-> current_status, document_info |-> {} ]

\* Variant: eligibility decided without looking for the metadata.
CheckRetryEligibility_NoMetadata(l) ==
    LET processing_logs == QueryProcessingLogs(l, LOG_QUERY_LIMIT)
        event_types == EventTypesOf(processing_logs)
        document_info ==
            ScanDocumentInfo(processing_logs, Len(processing_logs), {})
        retry_count == RetryInitiatedCount(processing_logs)
    IN  IF Len(processing_logs) = 0
        THEN Ineligible("Document not found in processing logs", "unknown")
        ELSE IF "failed" \notin event_types
        THEN Ineligible(
                "Document is still processing or not in failed state",
                "processing")
        ELSE IF retry_count >= MAX_RETRIES
        THEN Ineligible("Maximum retry attempts exceeded", "failed")
        ELSE [ eligible |-> TRUE,
               reason |-> "Document failed and is eligible for retry",
               current_status |-> "failed",
               document_info |-> document_info ]

\* _check_retry_eligibility reads the 20 newest events of the document.
CheckRetryEligibility(l) ==
    LET processing_logs == QueryProcessingLogs(l, LOG_QUERY_LIMIT)
        event_types == EventTypesOf(processing_logs)
        document_info ==
            ScanDocumentInfo(processing_logs, Len(processing_logs), {})
        retry_count == RetryInitiatedCount(processing_logs)
    IN  IF Len(processing_logs) = 0
        THEN Ineligible("Document not found in processing logs", "unknown")
        ELSE IF "failed" \notin event_types
        THEN IF "validation_completed" \in event_types
             THEN Ineligible(
                    "Document processing already completed successfully",
                    "completed")
             ELSE Ineligible(
                    "Document is still processing or not in failed state",
                    "processing")
        ELSE IF document_info = {}
        THEN Ineligible("Document metadata not found in processing logs",
                        "failed")
        ELSE IF retry_count >= MAX_RETRIES
        THEN Ineligible("Maximum retry attempts exceeded", "failed")
        ELSE [ eligible |-> TRUE,
               reason |-> "Document failed and is eligible for retry",
               current_status |-> "failed",
               document_info |-> document_info ]

\* _get_retry_count reads the whole log.
GetRetryCount(l) == RetryInitiatedCount(QueryProcessingLogs(l, None))

(***************************************************************************)
(* validator: ValidationResult.                                            *)
(***************************************************************************)
NewValidationResult ==
    [ errors |-> << >>, warnings |-> << >>, validation_status |-> "passed" ]

AddError(result, error) ==
    [ result EXCEPT !.errors = Append(@, error),
                    !.validation_status = "failed" ]

\* Variant: add_warning without the "if passed" guard.
AddWarning_Unguarded(result, warning) ==
    [ result EXCEPT !.warnings = Append(@, warning),
                    !.validation_status = "flagged" ]

AddWarning(result, warning) ==
    [ result EXCEPT !.warnings = Append(@, warning),
                    !.validation_status =
                        IF @ = "passed" THEN "flagged" ELSE @ ]

IsValid(result) == Len(result.errors) = 0

RequiresManualReview(result) ==
    result.validation_status \in { "flagged", "failed" }

\* A message: what it says, the metric (or subject) it names, the numbers
\* and the listed metrics it is formatted from.
Msg(kind, subject, values, items) ==
    [ kind |-> kind, subject |-> subject, values |-> values, items |-> items ]

(***************************************************************************)
(* validator: the four passes and validate_all.  A metric is a record of   *)
(* metric_type, metric_name, value, confidence_score and                   *)
(* flagged_for_review.  Money is counted in units of 500 dollars, so that  *)
(* every constant of the validator is a whole number of units.             *)
(***************************************************************************)
RANGE_LIMIT == 2000000000        \* 1_000_000_000_000 dollars
LARGE_VALUE == 200000000         \* 100_000_000_000 dollars
SMALL_VALUE == 2                 \* 1000 dollars
TOLERANCE_FLOOR == 2             \* 1000 dollars
TOLERANCE_DIVISOR == 100         \* tolerance = abs(expected) * 0.01
DOCUMENT_THRESHOLD == 75         \* OCR_CONFIDENCE_THRESHOLD_DOCUMENT 0.75
METRIC_THRESHOLD == 70           \* OCR_CONFIDENCE_THRESHOLD_METRIC 0.70
CRITICAL_CONFIDENCE == 60        \* 0.60
LISTED_METRICS == 3              \* low_confidence_metrics[:3]
MIN_METRICS == 3

REQUIRED_INCOME_STATEMENT_METRICS == << "revenue", "net_income" >>

RECOMMENDED_INCOME_STATEMENT_METRICS ==
    << "cogs", "gross_profit", "operating_expenses" >>

MetricTypes ==
    { "revenue", "cogs", "gross_profit", "operating_expenses",
      "operating_income", "ebitda", "net_income" }

VALUE_RANGES(metric_type) ==
    IF metric_type \in { "revenue", "cogs", "operating_expenses" }
    THEN << 0, RANGE_LIMIT >>
    ELSE << -RANGE_LIMIT, RANGE_LIMIT >>

\* The display name the extractor gives each metric type.
MetricName(metric_type) ==
    CASE metric_type = "revenue" -> "Total Revenue"
      [] metric_type = "cogs" -> "Cost of Goods Sold"
      [] metric_type = "gross_profit" -> "Gross Profit"
      [] metric_type = "operating_expenses" -> "Operating Expenses"
      [] metric_type = "operating_income" -> "Operating Income"
      [] metric_type = "ebitda" -> "EBITDA"
      [] OTHER -> "Net Income"

MetricTypesOf(metrics) == { metrics[i].metric_type : i \in 1..Len(metrics) }

RECURSIVE MissingRequired(_, _, _)
MissingRequired(result, metric_types, i) ==
    IF i > Len(REQUIRED_INCOME_STATEMENT_METRICS) THEN result
    ELSE LET m == REQUIRED_INCOME_STATEMENT_METRICS[i]
         IN  MissingRequired(
                IF m \notin metric_types
                THEN AddError(result,
                        Msg("Missing required metric", m, << >>, << >>))
                ELSE result,
                metric_types, i + 1)

RECURSIVE MissingRecommended(_, _, _)
MissingRecommended(result, metric_types, i) ==
    IF i > Len(RECOMMENDED_INCOME_STATEMENT_METRICS) THEN result
    ELSE LET m == RECOMMENDED_INCOME_STATEMENT_METRICS[i]
         IN  MissingRecommended(
                IF m \notin metric_types
                THEN AddWarning(result,
                        Msg("Missing recommended metric", m, << >>, << >>))
                ELSE result,
                metric_types, i + 1)

\* Variant: the few-metrics warning decided on the number of metric types.
ValidateCompleteness_ByTypes(metrics) ==
    LET metric_types == MetricTypesOf(metrics)
        r1 == MissingRequired(NewValidationResult, metric_types, 1)
        r2 == MissingRecommended(r1, metric_types, 1)
    IN  IF Cardinality(metric_types) < MIN_METRICS
        THEN AddWarning(r2,
                Msg("Only few financial metrics extracted", "",
                    << Len(metrics) >>, << >>))
        ELSE r2

ValidateCompleteness(metrics) ==
    LET metric_types == MetricTypesOf(metrics)
        r1 == MissingRequired(NewValidationResult, metric_types, 1)
        r2 == MissingRecommended(r1, metric_types, 1)
    IN  IF Len(metrics) < MIN_METRICS
        THEN AddWarning(r2,
                Msg("Only few financial metrics extracted", "",
                    << Len(metrics) >>, << >>))
        ELSE r2

\* Variant: a revenue of zero passes the positivity check.
RangeChecks_ZeroAllowed(result, metric) ==
    LET metric_type == metric.metric_type
        value == metric.value
        metric_name == metric.metric_name
        min_value == VALUE_RANGES(metric_type)[1]
        max_value == VALUE_RANGES(metric_type)[2]
        r1 == IF value < min_value \/ value > max_value
              THEN AddError(result,
                      Msg("outside reasonable range", metric_name,
                          << value, min_value, max_value >>, << >>))
              ELSE result
        r2 == IF metric_type = "revenue" /\ value < 0
              THEN AddError(r1,
                      Msg("Revenue must be positive", metric_name,
                          << value >>, << >>))
              ELSE r1
        r3 == IF Abs(value) > LARGE_VALUE
              THEN AddWarning(r2,
                      Msg("unusually large", metric_name, << value >>, << >>))
              ELSE r2
    IN  IF Abs(value) < SMALL_VALUE
           /\ metric_type \in { "revenue", "cogs", "operating_expenses" }
        THEN AddWarning(r3,
                Msg("unusually small", metric_name, << value >>, << >>))
        ELSE r3

\* The body of the loop of validate_ranges for one metric.
RangeChecks(result, metric) ==
    LET metric_type == metric.metric_type
        value == metric.value
        metric_name == metric.metric_name
        min_value == VALUE_RANGES(metric_type)[1]
        max_value == VALUE_RANGES(metric_type)[2]
        r1 == IF value < min_value \/ value > max_value
              THEN AddError(result,
                      Msg("outside reasonable range", metric_name,
                          << value, min_value, max_value >>, << >>))
              ELSE result
        r2 == IF metric_type = "revenue" /\ value <= 0
              THEN AddError(r1,
                      Msg("Revenue must be positive", metric_name,
                          << value >>, << >>))
              ELSE r1
        r3 == IF Abs(value) > LARGE_VALUE
              THEN AddWarning(r2,
                      Msg("unusually large", metric_name, << value >>, << >>))
              ELSE r2
    IN  IF Abs(value) < SMALL_VALUE
           /\ metric_type \in { "revenue", "cogs", "operating_expenses" }
        THEN AddWarning(r3,
                Msg("unusually small", metric_name, << value >>, << >>))
        ELSE r3

RECURSIVE ValidateRangesFrom(_, _, _)
ValidateRangesFrom(result, metrics, i) ==
    IF i > Len(metrics) THEN result
    ELSE ValidateRangesFrom(
            IF metrics[i].metric_type \notin MetricTypes THEN result
            ELSE RangeChecks(result, metrics[i]),
            metrics, i + 1)

ValidateRanges(metrics) == ValidateRangesFrom(NewValidationResult, metrics, 1)

RECURSIVE LowConfidenceMetrics(_, _)
LowConfidenceMetrics(metrics, i) ==
    IF i > Len(metrics) THEN << >>
    ELSE IF metrics[i].confidence_score < METRIC_THRESHOLD
         THEN << [ metric_name |-> metrics[i].metric_name,
                   confidence |-> metrics[i].confidence_score ] >>
              \o LowConfidenceMetrics(metrics, i + 1)
         ELSE LowConfidenceMetrics(metrics, i + 1)

ValidateConfidence(metrics, doc_confidence) ==
    LET r1 == IF doc_confidence < DOCUMENT_THRESHOLD
              THEN AddWarning(NewValidationResult,
                      Msg("Document OCR confidence is below threshold", "",
                          << doc_confidence, DOCUMENT_THRESHOLD >>, << >>))
              ELSE NewValidationResult
        low == LowConfidenceMetrics(metrics, 1)
        r2 == IF Len(low) > 0
              THEN AddWarning(r1,
                      Msg("metric(s) have low confidence",
                          IF Len(low) > LISTED_METRICS THEN "..." ELSE "",
                          << Len(low), METRIC_THRESHOLD >>,
                          SubSeq(low, 1, Min(Len(low), LISTED_METRICS))))
              ELSE r1
    IN  IF doc_confidence < CRITICAL_CONFIDENCE
        THEN AddError(r2,
                Msg("Document OCR confidence is critically low", "",
                    << doc_confidence >>, << >>))
        ELSE r2

\* metric_lookup: a later metric of a type replaces an earlier one.
HasMetric(metrics, metric_type) == metric_type \in MetricTypesOf(metrics)

MetricLookup(metrics, metric_type) ==
    LET last == CHOOSE i \in 1..Len(metrics) :
                    /\ metrics[i].metric_type = metric_type
                    /\ \A j \in (i + 1)..Len(metrics) :
                            metrics[j].metric_type # metric_type
    IN  metrics[last].value

\* Variant: the tolerance without its floor of 1000 dollars.
ValidateRelationships_NoFloor(metrics) ==
    LET revenue == MetricLookup(metrics, "revenue")
        cogs == MetricLookup(metrics, "cogs")
        gross_profit == MetricLookup(metrics, "gross_profit")
        calculated_gross_profit == revenue - cogs
        tolerance == Abs(calculated_gross_profit) \div TOLERANCE_DIVISOR
        r1 == IF /\ HasMetric(metrics, "revenue")
                 /\ HasMetric(metrics, "cogs")
                 /\ HasMetric(metrics, "gross_profit")
                 /\ Abs(gross_profit - calculated_gross_profit)
                        > tolerance
              THEN AddWarning(NewValidationResult,
                      Msg("Gross Profit mismatch", "",
                          << calculated_gross_profit, revenue, cogs,
                             gross_profit >>, << >>))
              ELSE NewValidationResult
    IN  IF /\ HasMetric(metrics, "revenue")
           /\ HasMetric(metrics, "cogs")
           /\ revenue > cogs
           /\ HasMetric(metrics, "gross_profit")
           /\ gross_profit <= 0
        THEN AddError(r1,
                Msg("Gross Profit should be positive when Revenue > COGS", "",
                    << gross_profit >>, << >>))
        ELSE r1

ValidateRelationships(metrics) ==
    LET revenue == MetricLookup(metrics, "revenue")
        cogs == MetricLookup(metrics, "cogs")
        gross_profit == MetricLookup(metrics, "gross_profit")
        calculated_gross_profit == revenue - cogs
        tolerance == Abs(calculated_gross_profit) \div TOLERANCE_DIVISOR
        r1 == IF /\ HasMetric(metrics, "revenue")
                 /\ HasMetric(metrics, "cogs")
                 /\ HasMetric(metrics, "gross_profit")
                 /\ Abs(gross_profit - calculated_gross_profit)
                        > Max(tolerance, TOLERANCE_FLOOR)
              THEN AddWarning(NewValidationResult,
                      Msg("Gross Profit mismatch", "",
                          << calculated_gross_profit, revenue, cogs,
                             gross_profit >>, << >>))
              ELSE NewValidationResult
    IN  IF /\ HasMetric(metrics, "revenue")
           /\ HasMetric(metrics, "cogs")
           /\ revenue > cogs
           /\ HasMetric(metrics, "gross_profit")
           /\ gross_profit <= 0
        THEN AddError(r1,
                Msg("Gross Profit should be positive when Revenue > COGS", "",
                    << gross_profit >>, << >>))
        ELSE r1

StatusOfLists(errors, warnings) ==
    IF Len(errors) > 0 THEN "failed"
    ELSE IF Len(warnings) > 0 THEN "flagged"
    ELSE "passed"

\* Variant: the relationship pass merged first.
ValidateAll_RelationshipFirst(metrics, doc_confidence) ==
    LET completeness_result == ValidateCompleteness(metrics)
        range_result == ValidateRanges(metrics)
        confidence_result == ValidateConfidence(metrics, doc_confidence)
        relationship_result == ValidateRelationships(metrics)
        errors == relationship_result.errors \o completeness_result.errors
                    \o range_result.errors \o confidence_result.errors
        warnings == relationship_result.warnings
                    \o completeness_result.warnings \o range_result.warnings
                    \o confidence_result.warnings
    IN  [ errors |-> errors, warnings |-> warnings,
          validation_status |-> StatusOfLists(errors, warnings) ]

ValidateAll(metrics, doc_confidence) ==
    LET completeness_result == ValidateCompleteness(metrics)
        range_result == ValidateRanges(metrics)
        confidence_result == ValidateConfidence(metrics, doc_confidence)
        relationship_result == ValidateRelationships(metrics)
        errors == completeness_result.errors \o range_result.errors
                    \o confidence_result.errors \o relationship_result.errors
        warnings == completeness_result.warnings \o range_result.warnings
                    \o confidence_result.warnings
                    \o relationship_result.warnings
    IN  [ errors |-> errors, warnings |-> warnings,
          validation_status |-> StatusOfLists(errors, warnings) ]

(***************************************************************************)
(* confidence_scorer and the metrics the extraction worker persists.       *)
(***************************************************************************)
SHORT_TEXT_PENALTY == 7          \* confidence *= 0.7, in tenths
PENALTY_SCALE == 10

\* calculate_metric_confidence with parsing_success = True: the cell
\* confidence, reduced when the value text is shorter than 2 characters.
CalculateMetricConfidence(short_text, cell_confidence) ==
    LET confidence == IF short_text
                      THEN (cell_confidence * SHORT_TEXT_PENALTY)
                                \div PENALTY_SCALE
                      ELSE cell_confidence
    IN  Max(0, Min(100, confidence))

\* Variant: a confidence equal to the threshold is flagged too.
ShouldFlagForReview_AtThreshold(confidence) ==
    confidence <= METRIC_THRESHOLD

\* should_flag_for_review: below the metric threshold.
ShouldFlagForReview(confidence) == confidence < METRIC_THRESHOLD

\* _extract_financial_metrics: one FinancialMetric per extracted raw metric.
FinancialMetric(raw) ==
    LET confidence == CalculateMetricConfidence(raw.short_text, raw.confidence)
    IN  [ metric_type |-> raw.metric_type,
          metric_name |-> MetricName(raw.metric_type),
          value |-> raw.value,
          confidence_score |-> confidence,
          flagged_for_review |-> ShouldFlagForReview(confidence) ]

FinancialMetrics(raws) == [ i \in 1..Len(raws) |-> FinancialMetric(raws[i]) ]

Raw(metric_type, value, confidence, short_text) ==
    [ metric_type |-> metric_type, value |-> value,
      confidence |-> confidence, short_text |-> short_text ]

\* Documents a user may upload: the type, the document-level confidence of
\* the extraction and the raw metrics the parser finds in its tables.
CleanPdf ==
    [ document_type |-> "PDF", overall_confidence |-> 90,
      raw_metrics |-> << Raw("revenue", 2000, 90, FALSE),
                         Raw("cogs", 1200, 90, FALSE),
                         Raw("gross_profit", 800, 90, FALSE),
                         Raw("operating_expenses", 600, 90, FALSE),
                         Raw("net_income", 200, 90, FALSE) >> ]

BlurredPdf ==
    [ document_type |-> "PDF", overall_confidence |-> 70,
      raw_metrics |-> << Raw("revenue", 2000, 60, FALSE),
                         Raw("net_income", 200, 90, FALSE) >> ]

Sheet ==
    [ document_type |-> "XLSX", overall_confidence |-> 100,
      raw_metrics |-> << Raw("revenue", 2000, 100, FALSE),
                         Raw("cogs", 1200, 100, FALSE),
                         Raw("gross_profit", 900, 100, FALSE),
                         Raw("net_income", 4, 100, TRUE) >> ]

Documents == { CleanPdf, BlurredPdf, Sheet }

(***************************************************************************)
(* State of the pipeline before the ingestion worker has seen the          *)
(* document: the upload handler has stored the blob and enqueued one       *)
(* message to the ingestion queue.                                         *)
(***************************************************************************)
Idle == [ pc |-> "idle" ]

NoResponse == [ handler |-> "none" ]

NoCache == [ cached |-> FALSE ]

NoCall == [ call |-> "none" ]

PipelineStart(doc, b) ==
    /\ document = doc
    /\ blob_exists = TRUE
    /\ log = << >>
    /\ ingestion_queue = << [ delivery |-> 1 ] >>
    /\ extraction_queue = << >>
    /\ validation_queue = << >>
    /\ metrics_store = << >>
    /\ extraction_results = << >>
    /\ ew = Idle
    /\ vw = Idle
    /\ retry_inflight = 0
    /\ accepted = 0
    /\ status_cache = NoCache
    /\ response = NoResponse
    /\ budget = b

\* What the environment may still do: faults in all (failing runs, loss of
\* the blob, failing writes), how many of them may be failing writes;
\* requests in all that change the state (retries that pass the checks,
\* status requests answered from the log), how many of them status requests.
Budget(faults, lost, requests, queries) ==
    [ faults |-> faults, lost |-> lost,
      requests |-> requests, queries |-> queries ]

NoBudget == Budget(0, 0, 0, 0)

(***************************************************************************)
(* Queues and the processing log as the workers use them.                  *)
(***************************************************************************)
\* A worker that raises abandons its message: Service Bus delivers it again
\* until its delivery count is spent, then dead-letters it.
Redeliver(queue, msg) ==
    IF msg.delivery < MaxDeliveryCount
    THEN << [ msg EXCEPT !.delivery = @ + 1 ] >> \o queue
    ELSE queue

\* _create_processing_log of a worker for the writes of one run, in order: a
\* write that fails is logged as an error and skipped.
RECURSIVE WriteLogs(_, _, _, _)
WriteLogs(l, event_types, i, lost) ==
    IF i > Len(event_types) THEN l
    ELSE WriteLogs(IF i \in lost THEN l ELSE AppendLog(l, event_types[i]),
                   event_types, i + 1, lost)

\* The writes of one run that fail: none, or one while the budget lasts.
LostWrites(n, failed_run) ==
    { {} } \cup IF /\ budget.lost > 0
                   /\ budget.faults > (IF failed_run THEN 1 ELSE 0)
                THEN { { i } : i \in 1..n }
                ELSE {}

Spend(b, failed_run, lost) ==
    [ b EXCEPT !.faults = @ - (IF failed_run THEN 1 ELSE 0)
                            - Cardinality(lost),
               !.lost = @ - Cardinality(lost) ]

(***************************************************************************)
(* process_ingestion: one run of the ingestion worker on one message.      *)
(***************************************************************************)
IngestionEvents(outcome) ==
    CASE outcome = "ok" -> << "ingestion_started", "queued" >>
      [] outcome = "duplicate" ->
            << "ingestion_started", "duplicate_detected", "queued" >>
      [] outcome = "integrity_failed" ->
            << "ingestion_started", "failed", "failed" >>
      [] outcome = "storage_error" -> << "ingestion_started", "failed" >>

IngestionOutcomes == { "ok", "duplicate", "integrity_failed", "storage_error" }

ProcessIngestion(outcome) ==
    /\ ingestion_queue # << >>
    /\ outcome \in { "ok", "duplicate" } \/ budget.faults > 0
    /\ LET msg == Head(ingestion_queue)
           events == IngestionEvents(outcome)
       IN  \E lost \in LostWrites(Len(events), outcome \notin { "ok", "duplicate" }) :
            /\ log' = WriteLogs(log, events, 1, lost)
            /\ budget' = Spend(budget, outcome \notin { "ok", "duplicate" }, lost)
            /\ IF outcome \in { "ok", "duplicate" }
               THEN /\ ingestion_queue' = Tail(ingestion_queue)
                    /\ extraction_queue' =
                            Append(extraction_queue,
                                   [ delivery |-> 1, retry_count |-> 0 ])
               ELSE /\ ingestion_queue' = Redeliver(Tail(ingestion_queue), msg)
                    /\ UNCHANGED extraction_queue
    /\ response' = NoResponse
    /\ UNCHANGED << document, blob_exists, validation_queue, metrics_store,
                    extraction_results, ew, vw, retry_inflight, accepted,
                    status_cache, vr, fn >>

(***************************************************************************)
(* extraction_worker: a run is three steps, the other workers and handlers *)
(* acting between them.                                                    *)
(***************************************************************************)
\* The message is received and extraction_started is logged.
ExtractionStart ==
    /\ ew.pc = "idle"
    /\ extraction_queue # << >>
    /\ \E lost \in LostWrites(1, FALSE) :
            /\ log' = WriteLogs(log, << "extraction_started" >>, 1, lost)
            /\ budget' = Spend(budget, FALSE, lost)
    /\ ew' = [ pc |-> "started", msg |-> Head(extraction_queue) ]
    /\ extraction_queue' = Tail(extraction_queue)
    /\ response' = NoResponse
    /\ UNCHANGED << document, blob_exists, ingestion_queue, validation_queue,
                    metrics_store, extraction_results, vw, retry_inflight,
                    accepted, status_cache, vr, fn >>

\* The failed event of an ExtractionFailedError with retry_eligible = False:
\* its event_data holds "retry_eligible": False.  The event is the last of
\* the log unless its write was lost.
NotRetryEligible(l, lost) ==
    IF lost # {} THEN l
    ELSE [ l EXCEPT ![Len(l)].event_data = @ \cup { "retry_eligible: False" } ]

\* _create_extraction_result
ExtractionResult(doc) ==
    [ ocr_confidence_avg |-> doc.overall_confidence,
      validation_status |-> "None",
      requires_manual_review |-> doc.overall_confidence < DOCUMENT_THRESHOLD ]

ExtractionOutcomes == { "ok", "extraction_failed", "persist_failed" }

\* Extraction, persistence of the result and of the metrics, and the message
\* to the validation queue; or a failure, logged as failed.  A failure with
\* retry_eligible = False (a spreadsheet that cannot be parsed) completes the
\* message; any other one is raised and the message delivered again.
ExtractionRun(outcome) ==
    /\ ew.pc = "started"
    /\ outcome = "ok" \/ budget.faults > 0
    /\ outcome = "persist_failed" => Len(document.raw_metrics) > 0
    /\ LET financial_metrics == FinancialMetrics(document.raw_metrics)
           extraction_result_id == Len(extraction_results) + 1
           retry_eligible == document.document_type = "PDF"
       IN  IF outcome = "ok"
           THEN /\ extraction_results' =
                        Append(extraction_results, ExtractionResult(document))
                /\ metrics_store' = metrics_store \o financial_metrics
                /\ validation_queue' =
                        Append(validation_queue,
                               [ delivery |-> 1,
                                 extraction_result_id |-> extraction_result_id ])
                /\ ew' = [ ew EXCEPT !.pc = "persisted" ]
                /\ UNCHANGED << log, extraction_queue, budget >>
           ELSE /\ IF outcome = "persist_failed"
                   THEN /\ extraction_results' =
                                Append(extraction_results,
                                       ExtractionResult(document))
                        /\ metrics_store' =
                                Append(metrics_store, financial_metrics[1])
                   ELSE UNCHANGED << extraction_results, metrics_store >>
                /\ \E lost \in LostWrites(1, TRUE) :
                        /\ log' = IF outcome = "extraction_failed" /\ ~retry_eligible
                                  THEN NotRetryEligible(
                                            WriteLogs(log, << "failed" >>, 1, lost),
                                            lost)
                                  ELSE WriteLogs(log, << "failed" >>, 1, lost)
                        /\ budget' = Spend(budget, TRUE, lost)
                /\ extraction_queue' =
                        IF outcome = "persist_failed" \/ retry_eligible
                        THEN Redeliver(extraction_queue, ew.msg)
                        ELSE extraction_queue
                /\ ew' = Idle
                /\ UNCHANGED validation_queue
    /\ response' = NoResponse
    /\ UNCHANGED << document, blob_exists, ingestion_queue, vw, retry_inflight,
                    accepted, status_cache, vr, fn >>

\* extraction_completed is logged and the message completed.
ExtractionComplete ==
    /\ ew.pc = "persisted"
    /\ \E lost \in LostWrites(1, FALSE) :
            /\ log' = WriteLogs(log, << "extraction_completed" >>, 1, lost)
            /\ budget' = Spend(budget, FALSE, lost)
    /\ ew' = Idle
    /\ response' = NoResponse
    /\ UNCHANGED << document, blob_exists, ingestion_queue, extraction_queue,
                    validation_queue, metrics_store, extraction_results, vw,
                    retry_inflight, accepted, status_cache, vr, fn >>

(***************************************************************************)
(* validation_worker: a run is three steps.                                *)
(***************************************************************************)
\* The message is received and validation_started is logged.
ValidationStart ==
    /\ vw.pc = "idle"
    /\ validation_queue # << >>
    /\ \E lost \in LostWrites(1, FALSE) :
            /\ log' = WriteLogs(log, << "validation_started" >>, 1, lost)
            /\ budget' = Spend(budget, FALSE, lost)
    /\ vw' = [ pc |-> "started", msg |-> Head(validation_queue) ]
    /\ validation_queue' = Tail(validation_queue)
    /\ response' = NoResponse
    /\ UNCHANGED << document, blob_exists, ingestion_queue, extraction_queue,
                    metrics_store, extraction_results, ew, retry_inflight,
                    accepted, status_cache, vr, fn >>

\* Variant: every metric below the threshold is patched, flagged or not.
ToFlag_AlsoFlagged(metrics) ==
    { i \in 1..Len(metrics) : metrics[i].confidence_score < METRIC_THRESHOLD }

\* The metrics _flag_low_confidence_metrics patches: below the threshold and
\* not flagged in the list that was read.
ToFlag(metrics) ==
    { i \in 1..Len(metrics) :
        /\ metrics[i].confidence_score < METRIC_THRESHOLD
        /\ ~metrics[i].flagged_for_review }

\* _flag_low_confidence_metrics: the store after the patches; a patch that
\* fails is logged as a warning and skipped.
FlagLowConfidenceMetrics(metrics, failing) ==
    [ i \in 1..Len(metrics) |->
        IF i \in ToFlag(metrics) \ failing
        THEN [ metrics[i] EXCEPT !.flagged_for_review = TRUE ]
        ELSE metrics[i] ]

ValidationOutcomes == { "ok", "error" }

\* The result and all metrics of the document are read, validated, the
\* result updated and the low-confidence metrics flagged; or a failure,
\* logged as failed and raised.
ValidationRun(outcome) ==
    /\ vw.pc = "started"
    /\ outcome = "ok" \/ budget.faults > 0
    /\ LET extraction_result_id == vw.msg.extraction_result_id
           extraction_result == extraction_results[extraction_result_id]
           metrics == metrics_store
           validation_result ==
                ValidateAll(metrics, extraction_result.ocr_confidence_avg)
       IN  IF outcome = "ok"
           THEN /\ vr' = validation_result
                /\ extraction_results' =
                    [ extraction_results EXCEPT ![extraction_result_id] =
                        [ @ EXCEPT
                            !.validation_status =
                                validation_result.validation_status,
                            !.requires_manual_review =
                                RequiresManualReview(validation_result) ] ]
                /\ \E failing \in SUBSET ToFlag(metrics) :
                    /\ Cardinality(failing) <= Min(budget.faults, budget.lost)
                    /\ budget' = Spend(budget, FALSE, failing)
                    /\ IF RequiresManualReview(validation_result)
                       THEN /\ metrics_store' =
                                FlagLowConfidenceMetrics(metrics, failing)
                            /\ vw' = [ pc |-> "validated", msg |-> vw.msg,
                                       patched |-> ToFlag(metrics) \ failing ]
                       ELSE /\ UNCHANGED metrics_store
                            /\ vw' = [ pc |-> "validated", msg |-> vw.msg,
                                       patched |-> {} ]
                /\ UNCHANGED << log, validation_queue >>
           ELSE /\ \E lost \in LostWrites(1, TRUE) :
                        /\ log' = WriteLogs(log, << "failed" >>, 1, lost)
                        /\ budget' = Spend(budget, TRUE, lost)
                /\ validation_queue' = Redeliver(validation_queue, vw.msg)
                /\ vw' = Idle
                /\ UNCHANGED << vr, extraction_results, metrics_store >>
    /\ response' = NoResponse
    /\ UNCHANGED << document, blob_exists, ingestion_queue, extraction_queue,
                    ew, retry_inflight, accepted, status_cache, fn >>

\* validation_completed is logged and the message completed.
ValidationComplete ==
    /\ vw.pc = "validated"
    /\ \E lost \in LostWrites(1, FALSE) :
            /\ log' = WriteLogs(log, << "validation_completed" >>, 1, lost)
            /\ budget' = Spend(budget, FALSE, lost)
    /\ vw' = Idle
    /\ response' = NoResponse
    /\ UNCHANGED << document, blob_exists, ingestion_queue, extraction_queue,
                    validation_queue, metrics_store, extraction_results, ew,
                    retry_inflight, accepted, status_cache, vr, fn >>

(***************************************************************************)
(* retry_handler: POST /documents/{id}/retry.  The eligibility check and   *)
(* the enqueue are two steps: other requests and the workers act between.  *)
(***************************************************************************)
\* Variant: the message is enqueued before the blob is looked for.
RetryCheck_EnqueueBeforeBlob ==
    /\ LET retry_eligibility == CheckRetryEligibility(log)
       IN  IF ~retry_eligibility.eligible
           THEN /\ response' = [ handler |-> "retry", status_code |-> 400,
                                 eligibility |-> retry_eligibility,
                                 at |-> Len(log) ]
                /\ UNCHANGED << retry_inflight, budget, extraction_queue >>
           ELSE IF ~blob_exists
           THEN /\ response' = [ handler |-> "retry", status_code |-> 404,
                                 eligibility |-> retry_eligibility,
                                 at |-> Len(log) ]
                /\ extraction_queue' =
                        Append(extraction_queue,
                               [ delivery |-> 1,
                                 retry_count |-> GetRetryCount(log) + 1 ])
                /\ UNCHANGED << retry_inflight, budget >>
           ELSE /\ budget.requests > 0
                /\ budget' = [ budget EXCEPT !.requests = @ - 1 ]
                /\ response' = [ handler |-> "retry", status_code |-> None,
                                 eligibility |-> retry_eligibility,
                                 at |-> Len(log) ]
                /\ retry_inflight' = retry_inflight + 1
                /\ UNCHANGED extraction_queue
    /\ UNCHANGED << document, blob_exists, log, ingestion_queue,
                    validation_queue, metrics_store,
                    extraction_results, ew, vw, accepted, status_cache, vr,
                    fn >>

\* _check_retry_eligibility and _verify_blob_existence: the request is
\* answered 400 or 404, or goes on to be enqueued (no status code yet).
RetryCheck ==
    /\ LET retry_eligibility == CheckRetryEligibility(log)
       IN  IF ~retry_eligibility.eligible
           THEN /\ response' = [ handler |-> "retry", status_code |-> 400,
                                 eligibility |-> retry_eligibility,
                                 at |-> Len(log) ]
                /\ UNCHANGED << retry_inflight, budget >>
           ELSE IF ~blob_exists
           THEN /\ response' = [ handler |-> "retry", status_code |-> 404,
                                 eligibility |-> retry_eligibility,
                                 at |-> Len(log) ]
                /\ UNCHANGED << retry_inflight, budget >>
           ELSE /\ budget.requests > 0
                /\ budget' = [ budget EXCEPT !.requests = @ - 1 ]
                /\ response' = [ handler |-> "retry", status_code |-> None,
                                 eligibility |-> retry_eligibility,
                                 at |-> Len(log) ]
                /\ retry_inflight' = retry_inflight + 1
    /\ UNCHANGED << document, blob_exists, log, ingestion_queue,
                    extraction_queue, validation_queue, metrics_store,
                    extraction_results, ew, vw, accepted, status_cache, vr,
                    fn >>

\* _get_retry_count, _enqueue_for_retry, _create_processing_log and the 202
\* response of a request that passed the checks.
RetryEnqueue ==
    /\ retry_inflight > 0
    /\ retry_inflight' = retry_inflight - 1
    /\ LET new_retry_count == GetRetryCount(log) + 1
       IN  /\ extraction_queue' =
                Append(extraction_queue,
                       [ delivery |-> 1, retry_count |-> new_retry_count ])
           /\ accepted' = accepted + 1
           /\ \E lost \in LostWrites(1, FALSE) :
                /\ log' = WriteLogs(log, << "retry_initiated" >>, 1, lost)
                /\ budget' = Spend(budget, FALSE, lost)
           /\ response' = [ handler |-> "retry", status_code |-> 202,
                            retry_count |-> new_retry_count,
                            at |-> Len(log) ]
    /\ UNCHANGED << document, blob_exists, ingestion_queue, validation_queue,
                    metrics_store, extraction_results, ew, vw, status_cache,
                    vr, fn >>

(***************************************************************************)
(* status_handler: GET /documents/{id}/status.                             *)
(***************************************************************************)
\* _get_cached_status returns the entry if it is younger than the TTL, and
\* deletes it otherwise.  An entry holds the status, its age (the time since
\* _cache_status stored it) and computed_at, the number of events the log
\* held at that time.
CacheHit == status_cache.cached /\ status_cache.age < CACHE_TTL_SECONDS

StatusQuery ==
    /\ LET processing_logs == QueryProcessingLogs(log, LOG_QUERY_LIMIT)
           status_info == DetermineStatusFromLogs(processing_logs)
       IN  IF CacheHit
           THEN /\ response' = [ handler |-> "status", status_code |-> 200,
                                 status_info |-> status_cache.status_info,
                                 from_cache |-> TRUE, at |-> Len(log) ]
                /\ UNCHANGED << status_cache, budget >>
           ELSE IF Len(processing_logs) = 0
           THEN /\ response' = [ handler |-> "status", status_code |-> 404,
                                 from_cache |-> FALSE, at |-> Len(log) ]
                /\ status_cache' = NoCache
                /\ UNCHANGED budget
           ELSE /\ budget.requests > 0
                /\ budget.queries > 0
                /\ budget' = [ budget EXCEPT !.requests = @ - 1,
                                             !.queries = @ - 1 ]
                /\ response' = [ handler |-> "status", status_code |-> 200,
                                 status_info |-> status_info,
                                 from_cache |-> FALSE, at |-> Len(log) ]
                /\ status_cache' = [ cached |-> TRUE, age |-> 0,
                                     status_info |-> status_info,
                                     computed_at |-> Len(log) ]
    /\ UNCHANGED << document, blob_exists, log, ingestion_queue,
                    extraction_queue, validation_queue, metrics_store,
                    extraction_results, ew, vw, retry_inflight, accepted, vr,
                    fn >>

\* Time passes: the cached entry ages.
Tick ==
    /\ status_cache.cached
    /\ status_cache.age < CACHE_TTL_SECONDS
    /\ status_cache' = [ status_cache EXCEPT !.age = @ + TickSeconds ]
    /\ response' = NoResponse
    /\ UNCHANGED << document, blob_exists, log, ingestion_queue,
                    extraction_queue, validation_queue, metrics_store,
                    extraction_results, ew, vw, retry_inflight, accepted,
                    budget, vr, fn >>

\* The uploaded blob is deleted or expires.
BlobExpire ==
    /\ blob_exists
    /\ budget.faults > 0
    /\ budget' = Spend(budget, TRUE, {})
    /\ blob_exists' = FALSE
    /\ response' = NoResponse
    /\ UNCHANGED << document, log, ingestion_queue, extraction_queue,
                    validation_queue, metrics_store, extraction_results, ew,
                    vw, retry_inflight, accepted, status_cache, vr, fn >>

(***************************************************************************)
(* The pipeline of one document with the two endpoints.                    *)
(***************************************************************************)
Init ==
    /\ \E doc \in Documents :
            PipelineStart(doc, Budget(MaxFaults, MaxFaults,
                                      MaxRequests, MaxRequests))
    /\ vr = NewValidationResult
    /\ fn = NoCall

Next ==
    \/ \E outcome \in IngestionOutcomes : ProcessIngestion(outcome)
    \/ ExtractionStart
    \/ \E outcome \in ExtractionOutcomes : ExtractionRun(outcome)
    \/ ExtractionComplete
    \/ ValidationStart
    \/ \E outcome \in ValidationOutcomes : ValidationRun(outcome)
    \/ ValidationComplete
    \/ RetryCheck
    \/ RetryEnqueue
    \/ StatusQuery
    \/ Tick
    \/ BlobExpire

Spec == Init /\ [][Next]_vars

(***************************************************************************)
(* The pipeline during an outage of the extraction service: every          *)
(* extraction run of a PDF fails with a retry-eligible error, and the      *)
(* uploader keeps asking for retries.                                      *)
(***************************************************************************)
OutageInit ==
    /\ PipelineStart(CleanPdf, Budget(MaxOutageRuns, 0, MaxOutageRetries, 0))
    /\ vr = NewValidationResult
    /\ fn = NoCall

OutageNext ==
    \/ ProcessIngestion("ok")
    \/ ExtractionStart
    \/ ExtractionRun("extraction_failed")
    \/ RetryCheck
    \/ RetryEnqueue

SpecOutage == OutageInit /\ [][OutageNext]_vars

(***************************************************************************)
(* The pipeline when one extraction run fails and every run after it       *)
(* succeeds: the uploader asks for a retry or for the status each time     *)
(* processing has come to rest.                                            *)
(***************************************************************************)
AtRest ==
    /\ ew.pc = "idle"
    /\ vw.pc = "idle"
    /\ ingestion_queue = << >>
    /\ extraction_queue = << >>
    /\ validation_queue = << >>
    /\ retry_inflight = 0

RecoveryInit ==
    /\ PipelineStart(CleanPdf,
                     Budget(1, 0, MaxRecoveryRetries + MaxRecoveryQueries,
                            MaxRecoveryQueries))
    /\ vr = NewValidationResult
    /\ fn = NoCall

RecoveryNext ==
    \/ ProcessIngestion("ok")
    \/ ExtractionStart
    \/ \E outcome \in { "ok", "extraction_failed" } : ExtractionRun(outcome)
    \/ ExtractionComplete
    \/ ValidationStart
    \/ ValidationRun("ok")
    \/ ValidationComplete
    \/ AtRest /\ RetryCheck
    \/ RetryEnqueue
    \/ AtRest /\ StatusQuery
    \/ Tick

SpecRecovery == RecoveryInit /\ [][RecoveryNext]_vars

(***************************************************************************)
(* Functions of the status handler applied to event lists.                 *)
(***************************************************************************)
RECURSIVE LogOfTypes(_, _)
LogOfTypes(types, i) ==
    IF i > Len(EventTypeOrder) THEN << >>
    ELSE LET rest == LogOfTypes(types, i + 1)
         IN  IF EventTypeOrder[i] \in types
             THEN << EventTypeOrder[i] >> \o rest
             ELSE rest

RECURSIVE TypeLists(_)
TypeLists(n) ==
    IF n = 0 THEN { << >> }
    ELSE LET shorter == TypeLists(n - 1)
         IN  shorter \cup { Append(l, t) : l \in shorter, t \in EventTypes }

\* An event list (oldest first) made of the given event types.
LogOf(types) == [ i \in 1..Len(types) |-> Event(types[i], i) ]

InputLogs ==
    { LogOf(LogOfTypes(S, 1)) : S \in SUBSET EventTypes }
        \cup { LogOf(l) : l \in TypeLists(MaxInputLen) }

StatusFnInit ==
    /\ PipelineStart(CleanPdf, NoBudget)
    /\ vr = NewValidationResult
    /\ \E l \in InputLogs :
            fn = [ call |-> "none", processing_logs |-> QueryProcessingLogs(l, None) ]

\* _determine_status_from_logs(processing_logs, document_id)
CallDetermineStatus ==
    /\ fn.call = "none"
    /\ fn' = [ fn EXCEPT !.call = "_determine_status_from_logs" ]
                @@ [ result |-> DetermineStatusFromLogs(fn.processing_logs) ]
    /\ UNCHANGED << pipeline_vars, vr >>

\* _calculate_progress(events)
CallCalculateProgress ==
    /\ fn.call = "none"
    /\ fn' = [ fn EXCEPT !.call = "_calculate_progress" ]
                @@ [ result |->
                        CalculateProgress(EventTypesOf(fn.processing_logs)) ]
    /\ UNCHANGED << pipeline_vars, vr >>

StatusFnNext == CallDetermineStatus \/ CallCalculateProgress

SpecStatusFn == StatusFnInit /\ [][StatusFnNext]_vars

(***************************************************************************)
(* C1: status cascade of _determine_status_from_logs.                      *)
(***************************************************************************)
HasEvent(processing_logs, types) ==
    \E i \in 1..Len(processing_logs) : processing_logs[i].event_type \in types

StatusDetermined == fn.call = "_determine_status_from_logs"

\* C1: for any list of processing events, _determine_status_from_logs returns
\* 'failed' if any event is failed; otherwise 'completed' if any is
\* validation_completed; otherwise 'processing' if any is validation_started
\* or extraction_started; otherwise 'queued' if any is queued or
\* ingestion_started; otherwise 'unknown'.
C1_StatusCascade ==
    StatusDetermined =>
        LET logs == fn.processing_logs
            status == fn.result.status
            f == HasEvent(logs, { "failed" })
            c == HasEvent(logs, { "validation_completed" })
            p == HasEvent(logs, { "validation_started", "extraction_started" })
            q == HasEvent(logs, { "queued", "ingestion_started" })
        IN  /\ f => status = "failed"
            /\ (~f /\ c) => status = "completed"
            /\ (~f /\ ~c /\ p) => status = "processing"
            /\ (~f /\ ~c /\ ~p /\ q) => status = "queued"
            /\ (~f /\ ~c /\ ~p /\ ~q) => status = "unknown"

\* A list holding both failed and validation_completed has been classified.
C1_Witness ==
    /\ StatusDetermined
    /\ HasEvent(fn.processing_logs, { "failed" })
    /\ HasEvent(fn.processing_logs, { "validation_completed" })
    /\ fn.result.status = "failed"

(***************************************************************************)
(* C7: stages, percentage and current stage of _calculate_progress.        *)
(***************************************************************************)
ProgressCalculated == fn.call = "_calculate_progress"

StageNames == << "upload", "ingestion", "extraction", "validation" >>

Triggers(stage) ==
    CASE stage = "upload" -> { "queued" }
      [] stage = "ingestion" -> { "ingestion_started" }
      [] stage = "extraction" ->
            { "extraction_started", "extraction_completed" }
      [] stage = "validation" ->
            { "validation_started", "validation_completed" }

Elements(seq) == { seq[i] : i \in 1..Len(seq) }

\* C7: _calculate_progress marks a stage completed iff one of its trigger
\* events is in the set, returns completion_percentage = 100 * completed
\* stages / 4, and returns as current_stage the last completed stage in the
\* order upload, ingestion, extraction, validation, or 'queued' when none is
\* completed; {queued, extraction_started, failed} gives 'extraction', 50.
C7_Progress ==
    ProgressCalculated =>
        LET events == EventTypesOf(fn.processing_logs)
            r == fn.result
            done == { k \in 1..4 : Triggers(StageNames[k]) \cap events # {} }
        IN  /\ Elements(r.stages_completed) = { StageNames[k] : k \in done }
            /\ Len(r.stages_completed) = Cardinality(done)
            /\ r.completion_percentage * 4 = 100 * Cardinality(done)
            /\ done = {} => r.current_stage = "queued"
            /\ done # {} =>
                  \E k \in done : /\ \A j \in done : j <= k
                                  /\ r.current_stage = StageNames[k]
            /\ events = { "queued", "extraction_started", "failed" } =>
                  /\ r.current_stage = "extraction"
                  /\ r.completion_percentage = 50

C7_Witness ==
    /\ ProgressCalculated
    /\ EventTypesOf(fn.processing_logs)
            = { "queued", "extraction_started", "failed" }
    /\ fn.result.current_stage = "extraction"
    /\ fn.result.completion_percentage = 50

(***************************************************************************)
(* The validator applied to metric lists.                                  *)
(***************************************************************************)
Metric(metric_type, value, confidence_score) ==
    [ metric_type |-> metric_type,
      metric_name |-> MetricName(metric_type),
      value |-> value,
      confidence_score |-> confidence_score,
      flagged_for_review |-> ShouldFlagForReview(confidence_score) ]

\* For each metric type, the metrics an input list may hold of it: none, or
\* one of a few values on both sides of every comparison of the validator.
InputChoices ==
    << { << >>, << Metric("revenue", 2000, 90) >>,
         << Metric("revenue", 2000, 65) >>, << Metric("revenue", 0, 90) >>,
         << Metric("revenue", -200, 90), Metric("revenue", 2000, 90) >> },
       { << >>, << Metric("cogs", 1200, 90) >>, << Metric("cogs", -2, 90) >> },
       { << >>, << Metric("gross_profit", 800, 90) >>,
         << Metric("gross_profit", 900, 90) >>,
         << Metric("gross_profit", 0, 90) >>,
         << Metric("gross_profit", -400, 90) >>,
         << Metric("gross_profit", 808, 90) >>,
         << Metric("gross_profit", 809, 90) >>,
         << Metric("gross_profit", 800, 90), Metric("gross_profit", -400, 90) >> },
       { << >>, << Metric("operating_expenses", 600, 90) >>,
         << Metric("operating_expenses", 200000001, 65) >> },
       { << >>, << Metric("operating_income", -100, 90) >> },
       { << >>, << Metric("ebitda", -100, 90) >> },
       { << >>, << Metric("net_income", -100, 90) >>,
         << Metric("net_income", 2000000001, 90) >> } >>

InputMetricLists ==
    { a \o b \o c \o d \o e \o f \o g :
        a \in InputChoices[1], b \in InputChoices[2], c \in InputChoices[3],
        d \in InputChoices[4], e \in InputChoices[5], f \in InputChoices[6],
        g \in InputChoices[7] }

InputDocConfidences == { 55, 72, 90 }

ValidatorInit ==
    /\ PipelineStart(CleanPdf, NoBudget)
    /\ vr = NewValidationResult
    /\ \E metrics \in InputMetricLists, doc_confidence \in InputDocConfidences :
            fn = [ call |-> "none", metrics |-> metrics,
                   doc_confidence |-> doc_confidence ]

SomeError == Msg("error", "", << >>, << >>)

SomeWarning == Msg("warning", "", << >>, << >>)

\* result.add_error(error) on the ValidationResult in hand
CallAddError ==
    /\ fn.call \in { "none", "add" }
    /\ Len(vr.errors) + Len(vr.warnings) < MaxMessages
    /\ vr' = AddError(vr, SomeError)
    /\ fn' = [ fn EXCEPT !.call = "add" ]
    /\ UNCHANGED pipeline_vars

\* result.add_warning(warning) on the ValidationResult in hand
CallAddWarning ==
    /\ fn.call \in { "none", "add" }
    /\ Len(vr.errors) + Len(vr.warnings) < MaxMessages
    /\ vr' = AddWarning(vr, SomeWarning)
    /\ fn' = [ fn EXCEPT !.call = "add" ]
    /\ UNCHANGED pipeline_vars

CallValidateCompleteness ==
    /\ fn.call = "none"
    /\ vr' = ValidateCompleteness(fn.metrics)
    /\ fn' = [ fn EXCEPT !.call = "validate_completeness" ]
    /\ UNCHANGED pipeline_vars

CallValidateRanges ==
    /\ fn.call = "none"
    /\ vr' = ValidateRanges(fn.metrics)
    /\ fn' = [ fn EXCEPT !.call = "validate_ranges" ]
    /\ UNCHANGED pipeline_vars

CallValidateConfidence ==
    /\ fn.call = "none"
    /\ vr' = ValidateConfidence(fn.metrics, fn.doc_confidence)
    /\ fn' = [ fn EXCEPT !.call = "validate_confidence" ]
    /\ UNCHANGED pipeline_vars

CallValidateRelationships ==
    /\ fn.call = "none"
    /\ vr' = ValidateRelationships(fn.metrics)
    /\ fn' = [ fn EXCEPT !.call = "validate_relationships" ]
    /\ UNCHANGED pipeline_vars

CallValidateAll ==
    /\ fn.call = "none"
    /\ vr' = ValidateAll(fn.metrics, fn.doc_confidence)
    /\ fn' = [ fn EXCEPT !.call = "validate_all" ]
    /\ UNCHANGED pipeline_vars

ValidatorNext ==
    \/ CallAddError
    \/ CallAddWarning
    \/ CallValidateCompleteness
    \/ CallValidateRanges
    \/ CallValidateConfidence
    \/ CallValidateRelationships
    \/ CallValidateAll

SpecValidator == ValidatorInit /\ [][ValidatorNext]_vars

(***************************************************************************)
(* C8: the status of a ValidationResult follows its two lists.             *)
(***************************************************************************)
\* C8: after any sequence of add_error and add_warning calls, and for every
\* result returned by a validation pass or by validate_all, validation_status
\* is 'failed' iff errors is non-empty, 'flagged' iff errors is empty and
\* warnings is non-empty, 'passed' iff both are empty; and
\* requires_manual_review() is true iff the status is not 'passed'.
C8_StatusFollowsLists ==
    /\ (vr.validation_status = "failed") <=> (Len(vr.errors) > 0)
    /\ (vr.validation_status = "flagged")
            <=> (Len(vr.errors) = 0 /\ Len(vr.warnings) > 0)
    /\ (vr.validation_status = "passed")
            <=> (Len(vr.errors) = 0 /\ Len(vr.warnings) = 0)
    /\ RequiresManualReview(vr) <=> (vr.validation_status # "passed")

\* A warning has been added to a result that already held an error.
C8_Witness ==
    /\ fn.call = "add"
    /\ Len(vr.errors) > 0
    /\ Len(vr.warnings) > 0
    /\ vr.validation_status = "failed"
    /\ RequiresManualReview(vr)

(***************************************************************************)
(* C9: validate_all merges the four passes in order.                       *)
(***************************************************************************)
\* The lists of the four passes laid end to end, by position.
InOrder(a, b, c, d) ==
    [ i \in 1..(Len(a) + Len(b) + Len(c) + Len(d)) |->
        IF i <= Len(a) THEN a[i]
        ELSE IF i <= Len(a) + Len(b) THEN b[i - Len(a)]
        ELSE IF i <= Len(a) + Len(b) + Len(c) THEN c[i - Len(a) - Len(b)]
        ELSE d[i - Len(a) - Len(b) - Len(c)] ]

\* C9: validate_all returns an errors list equal to the concatenation of the
\* errors of the completeness, range, confidence and relationship passes in
\* that order, and a warnings list equal to the concatenation of their
\* warnings in the same order; the status is failed if any pass produced an
\* error, else flagged if any pass produced a warning, else passed.
C9_MergeInOrder ==
    fn.call = "validate_all" =>
        LET c == ValidateCompleteness(fn.metrics)
            r == ValidateRanges(fn.metrics)
            f == ValidateConfidence(fn.metrics, fn.doc_confidence)
            l == ValidateRelationships(fn.metrics)
            any_error == \E p \in { c, r, f, l } : Len(p.errors) > 0
            any_warning == \E p \in { c, r, f, l } : Len(p.warnings) > 0
        IN  /\ vr.errors = InOrder(c.errors, r.errors, f.errors, l.errors)
            /\ vr.warnings
                = InOrder(c.warnings, r.warnings, f.warnings, l.warnings)
            /\ vr.validation_status =
                    IF any_error THEN "failed"
                    ELSE IF any_warning THEN "flagged"
                    ELSE "passed"

\* validate_all has merged a list to which every pass adds a warning and two
\* passes add an error.
C9_Witness ==
    /\ fn.call = "validate_all"
    /\ Len(ValidateCompleteness(fn.metrics).warnings) > 0
    /\ Len(ValidateRanges(fn.metrics).warnings) > 0
    /\ Len(ValidateConfidence(fn.metrics, fn.doc_confidence).warnings) > 0
    /\ Len(ValidateRelationships(fn.metrics).warnings) > 0
    /\ Len(ValidateRanges(fn.metrics).errors) > 0
    /\ Len(ValidateRelationships(fn.metrics).errors) > 0
    /\ Len(vr.errors) >= 2
    /\ Len(vr.warnings) >= 4

(***************************************************************************)
(* C5: a completed document and the retry endpoint.                        *)
(***************************************************************************)
RetryDecided == response.handler = "retry" /\ response.status_code # 202

\* C5: a document whose event set contains validation_completed is never
\* eligible for retry, also when the same event set contains a failed event:
\* _check_retry_eligibility returns eligible = false and the retry handler
\* enqueues nothing for it.
C5_CompletedNotRetried ==
    (RetryDecided /\ HasEvent(log, { "validation_completed" })) =>
        /\ ~response.eligibility.eligible
        /\ response.status_code = 400

(***************************************************************************)
(* C6: retry eligibility and the document metadata.                        *)
(***************************************************************************)
Recovered(key) == \E i \in 1..Len(log) : key \in log[i].event_data

\* C6: _check_retry_eligibility returns eligible = true only if both
\* document_name and document_type were recovered from the event payloads of
\* the log; when either of the two is present in no event payload the
\* document is not eligible.
C6_MetadataRequired ==
    RetryDecided =>
        /\ response.eligibility.eligible =>
                /\ response.eligibility.document_info = MetadataKeys
                /\ \A key \in MetadataKeys : Recovered(key)
        /\ (\E key \in MetadataKeys : ~Recovered(key)) =>
                ~response.eligibility.eligible

\* A retry of a failed document whose log holds no metadata was refused.
C6_Witness ==
    /\ RetryDecided
    /\ HasEvent(log, { "failed" })
    /\ \E key \in MetadataKeys : ~Recovered(key)
    /\ response.status_code = 400
    /\ response.eligibility.reason
            = "Document metadata not found in processing logs"

(***************************************************************************)
(* C10: flagging of low-confidence metrics by the validation worker.       *)
(***************************************************************************)
LowConfidence(metrics) ==
    { i \in 1..Len(metrics) : metrics[i].confidence_score < METRIC_THRESHOLD }

Flagged(metrics) ==
    { i \in 1..Len(metrics) : metrics[i].flagged_for_review }

ReviewFinished == vw.pc = "validated" /\ RequiresManualReview(vr)

\* C10: when the validation verdict requires manual review, after the
\* validation worker has finished every metric of the document whose
\* confidence_score is below the metric threshold has flagged_for_review =
\* true; a metric already flagged is not written again, and no metric's
\* flagged_for_review ever goes from true to false.
C10_LowConfidenceFlagged ==
    /\ [](ReviewFinished =>
            LowConfidence(metrics_store) \subseteq Flagged(metrics_store))
    /\ [][ /\ Flagged(metrics_store) \subseteq Flagged(metrics_store')
           /\ (vw.pc = "started" /\ vw'.pc = "validated") =>
                    vw'.patched \cap Flagged(metrics_store) = {} ]_vars

\* The worker has finished a document that needs review and holds a metric
\* below the threshold, which is flagged.
C10_Witness ==
    /\ ReviewFinished
    /\ LowConfidence(metrics_store) # {}
    /\ LowConfidence(metrics_store) \subseteq Flagged(metrics_store)
    /\ vw.patched \cap LowConfidence(metrics_store) = {}

(***************************************************************************)
(* C3: the limit of five retries.                                          *)
(***************************************************************************)
\* C3: in every execution, including concurrent retry requests for the same
\* document, processing-log writes that fail, and logs longer than the
\* 20-event window the retry handler queries, at most 5 retries are ever
\* accepted (a message enqueued to the extraction queue by the retry
\* handler) for one document.
C3_AtMostFiveRetries == accepted <= MAX_RETRIES

(***************************************************************************)
(* C4: retry eligibility and the count of retry_initiated events.          *)
(***************************************************************************)
\* C4: _check_retry_eligibility returns eligible = true only when the count
\* of retry_initiated events in the document's log is below 5; when the log
\* holds a failed event and 5 or more retry_initiated events it returns
\* eligible = false with a reason that names the retry limit.
C4_EligibleBelowLimit ==
    RetryDecided =>
        LET retries == Cardinality({ i \in 1..Len(log) :
                                        log[i].event_type = "retry_initiated" })
        IN  /\ response.eligibility.eligible => retries < 5
            /\ (HasEvent(log, { "failed" }) /\ retries >= 5) =>
                    /\ ~response.eligibility.eligible
                    /\ response.eligibility.reason
                            = "Maximum retry attempts exceeded"

(***************************************************************************)
(* C2: a failed event and the status endpoint.                             *)
(***************************************************************************)
\* C2: once a failed event has been appended to the log of a document, every
\* later status query of the status endpoint reports status 'failed',
\* whatever events are appended afterwards (validation_completed included)
\* and however many of them there are.  Stated for the answers computed from
\* the log; an answer served from the cache is as old as the cache entry.
C2_FailedIsFinal ==
    ( /\ response.handler = "status"
      /\ response.status_code = 200
      /\ ~response.from_cache
      /\ HasEvent(log, { "failed" }) ) =>
        response.status_info.status = "failed"

(***************************************************************************)
(* C11: the extraction worker and the validation worker on one document.   *)
(***************************************************************************)
\* The validation worker holds the message of an extraction result.
ValidationBegun == vw.pc \in { "started", "validated" }

\* The extraction worker has persisted the result and the metrics of that
\* message and enqueued it, and has not yet logged extraction_completed.
ExtractionUnfinished ==
    /\ ew.pc = "persisted"
    /\ vw.msg.extraction_result_id = Len(extraction_results)

\* C11: in every interleaving of the extraction worker and the validation
\* worker, the validation worker starts on a document only after the
\* extraction worker has completed its extraction: all metrics are persisted
\* and the extraction_completed event is in the log.
C11_ExtractionBeforeValidation ==
    ValidationBegun =>
        /\ ~ExtractionUnfinished
        /\ HasEvent(log, { "extraction_completed" })
        /\ Len(metrics_store) >= Len(document.raw_metrics)

(***************************************************************************)
(* C12: accepted retries and the retry_initiated events of the log.        *)
(***************************************************************************)
RetryAccepted == response.handler = "retry" /\ response.status_code = 202

\* C12: every retry the handler accepts appends one retry_initiated event,
\* so the number of retry_initiated events of the document equals the number
\* of its accepted retries, and the retry_count returned with an accepted
\* retry is the number of earlier accepted retries plus one.
C12_RetryLogged ==
    /\ RetryInitiatedCount(log) = accepted
    /\ RetryAccepted => response.retry_count = accepted

(***************************************************************************)
(* C13: the status of a document whose retry has succeeded.                *)
(***************************************************************************)
\* Places of the events of a type in the log.
PlacesOf(event_type) ==
    { i \in 1..Len(log) : log[i].event_type = event_type }

\* The document failed, was retried, and processing completed only after
\* the failure and the retry.
RetrySucceeded ==
    /\ PlacesOf("failed") # {}
    /\ PlacesOf("retry_initiated") # {}
    /\ PlacesOf("validation_completed") # {}
    /\ \A c \in PlacesOf("validation_completed") :
            \A i \in PlacesOf("failed") \cup PlacesOf("retry_initiated") : i < c

\* The status the status endpoint derives from the log as it is now.
DerivedStatus ==
    DetermineStatusFromLogs(QueryProcessingLogs(log, LOG_QUERY_LIMIT)).status

\* C13: after a failed document is retried and the retried extraction and
\* validation complete (validation_completed is appended after the failed and
\* retry_initiated events), the status derived for the document is
\* 'completed'.
C13_RetriedShowsCompleted == RetrySucceeded => DerivedStatus = "completed"

(***************************************************************************)
(* C14: what validate_completeness reports.                                *)
(***************************************************************************)
\* The messages of a list that are of a kind, and those that name a subject.
OfKind(msgs, kind) == { i \in 1..Len(msgs) : msgs[i].kind = kind }

Naming(msgs, kind, subject) ==
    { i \in OfKind(msgs, kind) : msgs[i].subject = subject }

Absent(metrics, metric_type) ==
    \A i \in 1..Len(metrics) : metrics[i].metric_type # metric_type

OfType(metrics, metric_type) ==
    { i \in 1..Len(metrics) : metrics[i].metric_type = metric_type }

MayBeNegative ==
    { "net_income", "gross_profit", "operating_income", "ebitda" }

InBand(metric) ==
    /\ metric.value >= VALUE_RANGES(metric.metric_type)[1]
    /\ metric.value <= VALUE_RANGES(metric.metric_type)[2]

\* C15: validate_ranges adds an error 'must be positive' for every revenue
\* metric whose value is <= 0, the value 0 inside the band included, and the
\* status is then 'failed'; a negative value of net_income, gross_profit,
\* operating_income or ebitda inside its band adds no error.
C15_RevenuePositive ==
    fn.call = "validate_ranges" =>
        LET metrics == fn.metrics
            bad == { i \in OfType(metrics, "revenue") : metrics[i].value <= 0 }
            positive == OfKind(vr.errors, "Revenue must be positive")
        IN  /\ Cardinality(positive) = Cardinality(bad)
            /\ \A i \in bad :
                 \E e \in positive : vr.errors[e].values = << metrics[i].value >>
            /\ bad # {} => vr.validation_status = "failed"
            /\ \A t \in MayBeNegative :
                 (\A i \in OfType(metrics, t) : InBand(metrics[i])) =>
                    \A e \in 1..Len(vr.errors) :
                        vr.errors[e].subject # MetricName(t)

\* A revenue of 0 and a negative net_income were checked: one error, on the
\* revenue.
C15_Witness ==
    /\ fn.call = "validate_ranges"
    /\ \E i \in OfType(fn.metrics, "revenue") : fn.metrics[i].value = 0
    /\ \E i \in OfType(fn.metrics, "net_income") : fn.metrics[i].value < 0
    /\ \E i \in OfType(fn.metrics, "ebitda") : fn.metrics[i].value < 0
    /\ Len(vr.errors) = 1
    /\ vr.errors[1].kind = "Revenue must be positive"
    /\ vr.validation_status = "failed"

(***************************************************************************)
(* C16: the gross profit equation of validate_relationships.  Of several   *)
(* metrics of one type, the last one is the one compared.                  *)
(***************************************************************************)
LastValue(metrics, metric_type) ==
    LET places == OfType(metrics, metric_type)
        last == CHOOSE i \in places : \A j \in places : j <= i
    IN  metrics[last].value

\* 100 times the difference is compared, so that 1% is a whole number.
Mismatch(revenue, cogs, gross_profit) ==
    LET expected == revenue - cogs
        off == Abs(gross_profit - expected)
    IN  100 * off > Abs(expected) /\ off > 2

\* C16: when revenue, cogs and gross_profit are all present,
\* validate_relationships adds exactly one 'mismatch' warning iff
\* |gross_profit - (revenue - cogs)| > max(1% of |revenue - cogs|, 1000), and
\* none otherwise or when one of the three is absent; revenue 1,000,000, cogs
\* 600,000, gross_profit 400,000 gives no warning, gross_profit 450,000
\* gives exactly one and the status 'flagged'.
C16_GrossProfitMismatch ==
    fn.call = "validate_relationships" =>
        LET metrics == fn.metrics
            present == \A t \in { "revenue", "cogs", "gross_profit" } :
                            OfType(metrics, t) # {}
            mismatches == OfKind(vr.warnings, "Gross Profit mismatch")
            revenue == LastValue(metrics, "revenue")
            cogs == LastValue(metrics, "cogs")
            gross_profit == LastValue(metrics, "gross_profit")
        IN  /\ ~present => mismatches = {}
            /\ present =>
                 Cardinality(mismatches)
                    = IF Mismatch(revenue, cogs, gross_profit) THEN 1 ELSE 0
            /\ Len(vr.warnings) = Cardinality(mismatches)
            /\ (present /\ revenue = 2000 /\ cogs = 1200 /\ gross_profit = 800)
                    => Len(vr.warnings) = 0
            /\ (present /\ revenue = 2000 /\ cogs = 1200 /\ gross_profit = 900)
                    => /\ Len(vr.warnings) = 1
                       /\ vr.validation_status = "flagged"

\* Revenue 1,000,000, cogs 600,000 and gross_profit 450,000 were compared.
C16_Witness ==
    /\ fn.call = "validate_relationships"
    /\ Len(fn.metrics) = 3
    /\ \A t \in { "revenue", "cogs", "gross_profit" } :
            OfType(fn.metrics, t) # {}
    /\ LastValue(fn.metrics, "revenue") = 2000
    /\ LastValue(fn.metrics, "cogs") = 1200
    /\ LastValue(fn.metrics, "gross_profit") = 900
    /\ Len(vr.warnings) = 1
    /\ vr.validation_status = "flagged"

(***************************************************************************)
(* Number parser (ingestion/utils/number_parser.py).                       *)
(*                                                                         *)
(* A text is a sequence of characters, each character a one-character      *)
(* string; the currency signs outside ASCII are written by name.  A parsed *)
(* value is the real number  (-1)^negative * mantissa * 10^exponent  with  *)
(* the trailing zeros of the mantissa moved into the exponent, so that two *)
(* values are equal exactly when their records are equal.  Binary rounding *)
(* of float is not modelled.                                               *)
(***************************************************************************)
Str(chars) == [ type |-> "str", chars |-> chars ]

NoneInput == [ type |-> "NoneType", chars |-> << >> ]

\* A value that is not a string, such as the integer 5 or a list.
NonStringInput == [ type |-> "int", chars |-> << "5" >> ]

\* Python None as the value of a result pair.
NoneNumber == [ is_none |-> TRUE, negative |-> FALSE, mantissa |-> 0, exponent |-> 0 ]

\* Python None as the currency of a result pair.
NoneCurrency == "None"

Digits == { "0", "1", "2", "3", "4", "5", "6", "7", "8", "9" }

DigitValue(c) ==
    CASE c = "0" -> 0 [] c = "1" -> 1 [] c = "2" -> 2 [] c = "3" -> 3
      [] c = "4" -> 4 [] c = "5" -> 5 [] c = "6" -> 6 [] c = "7" -> 7
      [] c = "8" -> 8 [] c = "9" -> 9

CURRENCY_SYMBOLS ==
    << << "$" >>, << "euro" >>, << "pound" >>, << "yen" >>, << "rupee" >>,
       << "U", "S", "D" >>, << "E", "U", "R" >>, << "G", "B", "P" >>,
       << "J", "P", "Y" >>, << "I", "N", "R" >> >>

\* The multipliers as powers of ten, in the order of the dictionary.
MAGNITUDE_MULTIPLIERS ==
    << [ suffix |-> << "K" >>, zeros |-> 3 ],
       [ suffix |-> << "M" >>, zeros |-> 6 ],
       [ suffix |-> << "B" >>, zeros |-> 9 ],
       [ suffix |-> << "T" >>, zeros |-> 12 ],
       [ suffix |-> << "T", "H", "O", "U", "S", "A", "N", "D" >>, zeros |-> 3 ],
       [ suffix |-> << "M", "I", "L", "L", "I", "O", "N" >>, zeros |-> 6 ],
       [ suffix |-> << "B", "I", "L", "L", "I", "O", "N" >>, zeros |-> 9 ],
       [ suffix |-> << "T", "R", "I", "L", "L", "I", "O", "N" >>, zeros |-> 12 ] >>

currency_map ==
    << [ symbol |-> << "$" >>, code |-> "USD" ],
       [ symbol |-> << "euro" >>, code |-> "EUR" ],
       [ symbol |-> << "pound" >>, code |-> "GBP" ],
       [ symbol |-> << "yen" >>, code |-> "JPY" ],
       [ symbol |-> << "rupee" >>, code |-> "INR" ],
       [ symbol |-> << "U", "S", "D" >>, code |-> "USD" ],
       [ symbol |-> << "E", "U", "R" >>, code |-> "EUR" ],
       [ symbol |-> << "G", "B", "P" >>, code |-> "GBP" ],
       [ symbol |-> << "J", "P", "Y" >>, code |-> "JPY" ],
       [ symbol |-> << "I", "N", "R" >>, code |-> "INR" ] >>

\* str.strip()
RECURSIVE StripLeft(_)
StripLeft(s) ==
    IF s # << >> /\ Head(s) = " " THEN StripLeft(Tail(s)) ELSE s

RECURSIVE StripRight(_)
StripRight(s) ==
    IF s # << >> /\ s[Len(s)] = " " THEN StripRight(SubSeq(s, 1, Len(s) - 1)) ELSE s

Strip(s) == StripRight(StripLeft(s))

StartsWith(s, prefix) ==
    Len(prefix) <= Len(s) /\ SubSeq(s, 1, Len(prefix)) = prefix

EndsWith(s, suffix) ==
    Len(suffix) <= Len(s) /\ SubSeq(s, Len(s) - Len(suffix) + 1, Len(s)) = suffix

\* symbol in text
Contains(s, part) ==
    \E i \in 0..(Len(s) - Len(part)) : SubSeq(s, i + 1, i + Len(part)) = part

\* str.replace(old, new, count), old not empty; count = -1 replaces them all
RECURSIVE Replace(_, _, _, _)
Replace(s, old, new, count) ==
    IF count = 0 \/ Len(s) < Len(old) THEN s
    ELSE IF StartsWith(s, old)
         THEN new \o Replace(SubSeq(s, Len(old) + 1, Len(s)), old, new,
                             IF count > 0 THEN count - 1 ELSE count)
         ELSE << Head(s) >> \o Replace(Tail(s), old, new, count)

\* str.count(c) of one character
Count(s, c) == Cardinality({ i \in 1..Len(s) : s[i] = c })

\* str.rfind(c) of one character, counted from 0; -1 when absent
RFind(s, c) ==
    IF \E i \in 1..Len(s) : s[i] = c
    THEN (CHOOSE i \in 1..Len(s) : s[i] = c /\ \A j \in (i + 1)..Len(s) : s[j] # c) - 1
    ELSE -1

UpperChar(c) ==
    CASE c = "a" -> "A" [] c = "b" -> "B" [] c = "c" -> "C"
      [] c = "d" -> "D" [] c = "e" -> "E" [] c = "f" -> "F"
      [] c = "g" -> "G" [] c = "h" -> "H" [] c = "i" -> "I"
      [] c = "j" -> "J" [] c = "k" -> "K" [] c = "l" -> "L"
      [] c = "m" -> "M" [] c = "n" -> "N" [] c = "o" -> "O"
      [] c = "p" -> "P" [] c = "q" -> "Q" [] c = "r" -> "R"
      [] c = "s" -> "S" [] c = "t" -> "T" [] c = "u" -> "U"
      [] c = "v" -> "V" [] c = "w" -> "W" [] c = "x" -> "X"
      [] c = "y" -> "Y" [] c = "z" -> "Z"
      [] OTHER -> c

\* str.upper()
Upper(s) == [ i \in 1..Len(s) |-> UpperChar(s[i]) ]

\* The integer written by a sequence of digits (0 for no digit).
RECURSIVE DigitsToInt(_)
DigitsToInt(s) ==
    IF s = << >> THEN 0
    ELSE 10 * DigitsToInt(SubSeq(s, 1, Len(s) - 1)) + DigitValue(s[Len(s)])

\* Trailing zeros of the mantissa go into the exponent; zero has one form
\* (-0.0 == 0.0).
RECURSIVE Normal(_)
Normal(v) ==
    IF v.mantissa = 0 THEN [ v EXCEPT !.exponent = 0, !.negative = FALSE ]
    ELSE IF v.mantissa % 10 = 0
         THEN Normal([ v EXCEPT !.mantissa = @ \div 10, !.exponent = @ + 1 ])
         ELSE v

\* float(text): the value, or ValueError.  A text is a float literal when,
\* white space around it and one sign dropped, it is made of digits and at
\* most one period and has a digit.
Float(text) ==
    LET stripped == Strip(text)
        signed == stripped # << >> /\ Head(stripped) \in { "-", "+" }
        body == IF signed THEN Tail(stripped) ELSE stripped
        point == RFind(body, ".") + 1
        whole == IF point = 0 THEN body ELSE SubSeq(body, 1, point - 1)
        fraction == IF point = 0 THEN << >> ELSE SubSeq(body, point + 1, Len(body))
    IN  IF /\ \A i \in 1..Len(body) : body[i] \in Digits \cup { "." }
           /\ Count(body, ".") <= 1
           /\ \E i \in 1..Len(body) : body[i] \in Digits
        THEN [ error |-> "none",
               value |-> Normal([ is_none |-> FALSE,
                                  negative |-> signed /\ Head(stripped) = "-",
                                  mantissa |-> DigitsToInt(whole \o fraction),
                                  exponent |-> 0 - Len(fraction) ]) ]
        ELSE [ error |-> "ValueError", value |-> NoneNumber ]

\* value * magnitude_multiplier, the multiplier a power of ten
Times(value, zeros) ==
    Normal([ value EXCEPT !.exponent = @ + zeros ])

\* -value
Negate(value) == Normal([ value EXCEPT !.negative = ~@ ])

RECURSIVE RemoveCurrencySymbols(_, _)
RemoveCurrencySymbols(text, i) ==
    IF i > Len(CURRENCY_SYMBOLS) THEN text
    ELSE RemoveCurrencySymbols(Replace(text, CURRENCY_SYMBOLS[i], << >>, -1), i + 1)

\* NumberParser._detect_currency(text)
DetectCurrency(text) ==
    LET found == { i \in 1..Len(currency_map) : Contains(text, currency_map[i].symbol) }
    IN  IF found = {} THEN NoneCurrency
        ELSE currency_map[CHOOSE i \in found : \A j \in found : i <= j].code

\* The first suffix of MAGNITUDE_MULTIPLIERS the text ends with, 0 for none.
MagnitudeSuffix(text_upper) ==
    LET found == { i \in 1..Len(MAGNITUDE_MULTIPLIERS) :
                        EndsWith(text_upper, MAGNITUDE_MULTIPLIERS[i].suffix) }
    IN  IF found = {} THEN 0 ELSE CHOOSE i \in found : \A j \in found : i <= j

\* Lines 93-120: which of comma and period is the decimal separator.
Separators(text) ==
    LET comma_count == Count(text, ",")
        period_count == Count(text, ".")
        last_comma_pos == RFind(text, ",")
        last_period_pos == RFind(text, ".")
        chars_after_comma == Len(text) - last_comma_pos - 1
    IN  IF comma_count > 0 /\ period_count > 0
        THEN IF last_comma_pos > last_period_pos
             THEN Replace(Replace(text, << "." >>, << >>, -1), << "," >>, << "." >>, -1)
             ELSE Replace(text, << "," >>, << >>, -1)
        ELSE IF comma_count > 0
             THEN IF chars_after_comma = 2
                  THEN Replace(Replace(text, << "," >>, << "." >>, 1), << "," >>, << >>, -1)
                  ELSE Replace(text, << "," >>, << >>, -1)
             ELSE text

\* The text of lines 65-91: what is left of the input once the currency
\* symbols, the parentheses and the magnitude suffix are taken away.
Stripped(text) ==
    LET no_currency == Strip(RemoveCurrencySymbols(Strip(text), 1))
        is_negative == StartsWith(no_currency, << "(" >>) /\ EndsWith(no_currency, << ")" >>)
        inner == IF is_negative
                 THEN Strip(SubSeq(no_currency, 2, Len(no_currency) - 1))
                 ELSE no_currency
        suffix == MagnitudeSuffix(Upper(inner))
    IN  [ is_negative |-> is_negative,
          zeros |-> IF suffix = 0 THEN 0 ELSE MAGNITUDE_MULTIPLIERS[suffix].zeros,
          text |-> IF suffix = 0 THEN inner
                   ELSE Strip(SubSeq(inner, 1,
                              Len(inner) - Len(MAGNITUDE_MULTIPLIERS[suffix].suffix))) ]

ParseFinancialNumber_KeepCurrency(text) ==
    IF text.chars = << >> \/ text.type # "str"
    THEN [ raised |-> "none", value |-> NoneNumber, currency |-> NoneCurrency ]
    ELSE LET currency == DetectCurrency(Strip(text.chars))
             stripped == Stripped(text.chars)
             parsed == Float(Separators(stripped.text))
             value == Times(parsed.value, stripped.zeros)
         IN  IF parsed.error = "none"
             THEN [ raised |-> "none",
                    value |-> IF stripped.is_negative THEN Negate(value) ELSE value,
                    currency |-> currency ]
             ELSE [ raised |-> "none", value |-> NoneNumber, currency |-> currency ]

\* NumberParser.parse_financial_number(text): the pair returned, and the
\* exception that leaves the function, if any (ValueError is caught).
ParseFinancialNumber(text) ==
    IF text.chars = << >> \/ text.type # "str"
    THEN [ raised |-> "none", value |-> NoneNumber, currency |-> NoneCurrency ]
    ELSE LET currency == DetectCurrency(Strip(text.chars))
             stripped == Stripped(text.chars)
             parsed == Float(Separators(stripped.text))
             value == Times(parsed.value, stripped.zeros)
         IN  IF parsed.error = "none"
             THEN [ raised |-> "none",
                    value |-> IF stripped.is_negative THEN Negate(value) ELSE value,
                    currency |-> currency ]
             ELSE [ raised |-> "none", value |-> NoneNumber, currency |-> NoneCurrency ]

(***************************************************************************)
(* The number parser on its own: one call on one input.                    *)
(***************************************************************************)
MaxBodyLen == 6         \* longest run of digits and separators in an input

BodyChars == << "0", "1", ",", "." >>

RECURSIVE Bodies(_)
Bodies(n) ==
    IF n = 0 THEN { << >> }
    ELSE LET shorter == Bodies(n - 1)
         IN  shorter \cup { Append(b, BodyChars[i]) : b \in shorter, i \in 1..Len(BodyChars) }

\* Inputs of other shapes: no number at all, a currency token and no
\* number, words, signs, spaces, a code and a word as suffix.
OtherTexts ==
    { << >>,
      << "$" >>,
      << "U", "S", "D" >>,
      << "(", ")" >>,
      << "M" >>,
      << "n", "o", "t", " ", "a", " ", "n", "u", "m", "b", "e", "r" >>,
      << "euro", "1", ".", "0", "0", "1", ",", "1", "0" >>,
      << "-", "1", ",", "1", "0" >>,
      << " ", "1", "0", " ", "m", "i", "l", "l", "i", "o", "n", " " >>,
      << "E", "U", "R", " ", "1", "0", "k" >>,
      << "1", " ", "0" >> }

InputTexts ==
    { Str(currency \o (IF parenthesised THEN << "(" >> \o body \o suffix \o << ")" >>
                                         ELSE body \o suffix)) :
        currency \in { << >>, << "$" >> }, parenthesised \in BOOLEAN,
        body \in Bodies(MaxBodyLen), suffix \in { << >>, << "M" >> } }
      \cup { Str(t) : t \in OtherTexts }
      \cup { NoneInput, NonStringInput }

NumberParserInit ==
    /\ PipelineStart(CleanPdf, NoBudget)
    /\ vr = NewValidationResult
    /\ \E text \in InputTexts : fn = [ call |-> "none", text |-> text ]

\* NumberParser.parse_financial_number(text)
CallParseFinancialNumber ==
    /\ fn.call = "none"
    /\ fn' = [ fn EXCEPT !.call = "parse_financial_number" ]
                @@ [ result |-> ParseFinancialNumber(fn.text) ]
    /\ UNCHANGED << pipeline_vars, vr >>

\* NumberParser._detect_currency(text), on a string
CallDetectCurrency ==
    /\ fn.call = "none"
    /\ fn.text.type = "str"
    /\ fn' = [ fn EXCEPT !.call = "_detect_currency" ]
                @@ [ result |-> DetectCurrency(fn.text.chars) ]
    /\ UNCHANGED << pipeline_vars, vr >>

NumberParserNext == CallParseFinancialNumber \/ CallDetectCurrency

SpecNumberParser == NumberParserInit /\ [][NumberParserNext]_vars

(***************************************************************************)
(* C19: a text with commas and no period.                                  *)
(***************************************************************************)
\* The text left after the currency, parenthesis and suffix stripping has
\* one or more commas and no period.
OnlyCommas(text) == Count(text, ",") > 0 /\ Count(text, ".") = 0

\* Exactly two characters follow the last comma and both are digits.
TwoDigitsFollow(text) ==
    /\ Len(text) - RFind(text, ",") - 1 = 2
    /\ text[Len(text) - 1] \in Digits
    /\ text[Len(text)] \in Digits

\* The number the text is read as: the last comma as the decimal point when
\* two digits follow it, every other comma dropped.
ReadWithCommas(text) ==
    LET last == RFind(text, ",") + 1
        dropped == Replace(text, << "," >>, << >>, -1)
    IN  IF TwoDigitsFollow(text)
        THEN Replace(SubSeq(text, 1, last - 1), << "," >>, << >>, -1)
                \o << "." >> \o SubSeq(text, last + 1, Len(text))
        ELSE dropped

\* The pair's value for a stripped text read as the given literal.
ValueOf(stripped, literal) ==
    LET parsed == Float(literal)
        value == Times(parsed.value, stripped.zeros)
    IN  IF parsed.error # "none" THEN NoneNumber
        ELSE IF stripped.is_negative THEN Negate(value) ELSE value

\* C19: when the stripped text has commas and no period, the value returned
\* by parse_financial_number is the one read with the last comma as decimal
\* point if exactly two digits follow it (the digits before it, earlier
\* commas dropped, being the integer part), and with every comma dropped
\* otherwise.
C19_CommaOnly ==
    (/\ fn.call = "parse_financial_number"
     /\ fn.text.type = "str"
     /\ OnlyCommas(Stripped(fn.text.chars).text))
        => LET stripped == Stripped(fn.text.chars)
           IN  fn.result.value = ValueOf(stripped, ReadWithCommas(stripped.text))

(***************************************************************************)
(* C20: parse_financial_number never raises and fails with (None, None).   *)
(***************************************************************************)
\* The input holds no number: it is not a string, or it has no digit.
HoldsNoNumber(text) ==
    text.type # "str" \/ \A i \in 1..Len(text.chars) : text.chars[i] \notin Digits

\* C20: whatever the input (None, a non-string, the empty string, a text
\* with no number, a currency token alone), parse_financial_number returns
\* a pair and lets no exception out; an input holding no number has no
\* value, and a pair without a value has no currency either, a detected
\* currency being discarded.
C20_FailsWithNonePair ==
    fn.call = "parse_financial_number"
        => /\ fn.result.raised = "none"
           /\ HoldsNoNumber(fn.text) => fn.result.value = NoneNumber
           /\ fn.result.value = NoneNumber => fn.result.currency = NoneCurrency

\* A text in which a currency token is detected and no value can be parsed
\* has been parsed, and the pair returned is (None, None).
C20_Witness ==
    /\ fn.call = "parse_financial_number"
    /\ fn.text.type = "str"
    /\ DetectCurrency(fn.text.chars) = "USD"
    /\ HoldsNoNumber(fn.text)
    /\ fn.result.value = NoneNumber
    /\ fn.result.currency = NoneCurrency

(***************************************************************************)
(* Financial parser (ingestion/services/financial_parser.py).              *)
(*                                                                         *)
(* The content of a cell is a text, a sequence of characters.  A label     *)
(* pattern is the sequence of the pieces of its regular expression: a      *)
(* literal, \s+ (one or more spaces) and .* (any characters).  A cell is   *)
(* named by its place in the list of cells of the table.                   *)
(***************************************************************************)
Lit(chars) == [ kind |-> "literal", chars |-> chars ]

Spaces == [ kind |-> "s+", chars |-> << >> ]

Anything == [ kind |-> ".*", chars |-> << >> ]

\* total\s+revenue, net\s+revenue, revenue, sales, total\s+sales, net\s+sales, operating\s+revenue
REVENUE_PATTERNS ==
    << << Lit(<< "t", "o", "t", "a", "l" >>), Spaces, Lit(<< "r", "e", "v", "e", "n", "u", "e" >>) >>,
       << Lit(<< "n", "e", "t" >>), Spaces, Lit(<< "r", "e", "v", "e", "n", "u", "e" >>) >>,
       << Lit(<< "r", "e", "v", "e", "n", "u", "e" >>) >>,
       << Lit(<< "s", "a", "l", "e", "s" >>) >>,
       << Lit(<< "t", "o", "t", "a", "l" >>), Spaces, Lit(<< "s", "a", "l", "e", "s" >>) >>,
       << Lit(<< "n", "e", "t" >>), Spaces, Lit(<< "s", "a", "l", "e", "s" >>) >>,
       << Lit(<< "o", "p", "e", "r", "a", "t", "i", "n", "g" >>), Spaces, Lit(<< "r", "e", "v", "e", "n", "u", "e" >>) >> >>

\* cost\s+of\s+goods\s+sold, cogs, cost\s+of\s+revenue, cost\s+of\s+sales, direct\s+costs
COGS_PATTERNS ==
    << << Lit(<< "c", "o", "s", "t" >>), Spaces, Lit(<< "o", "f" >>), Spaces, Lit(<< "g", "o", "o", "d", "s" >>), Spaces, Lit(<< "s", "o", "l", "d" >>) >>,
       << Lit(<< "c", "o", "g", "s" >>) >>,
       << Lit(<< "c", "o", "s", "t" >>), Spaces, Lit(<< "o", "f" >>), Spaces, Lit(<< "r", "e", "v", "e", "n", "u", "e" >>) >>,
       << Lit(<< "c", "o", "s", "t" >>), Spaces, Lit(<< "o", "f" >>), Spaces, Lit(<< "s", "a", "l", "e", "s" >>) >>,
       << Lit(<< "d", "i", "r", "e", "c", "t" >>), Spaces, Lit(<< "c", "o", "s", "t", "s" >>) >> >>

\* gross\s+profit, gross\s+income, gross\s+margin
GROSS_PROFIT_PATTERNS ==
    << << Lit(<< "g", "r", "o", "s", "s" >>), Spaces, Lit(<< "p", "r", "o", "f", "i", "t" >>) >>,
       << Lit(<< "g", "r", "o", "s", "s" >>), Spaces, Lit(<< "i", "n", "c", "o", "m", "e" >>) >>,
       << Lit(<< "g", "r", "o", "s", "s" >>), Spaces, Lit(<< "m", "a", "r", "g", "i", "n" >>) >> >>

\* operating\s+expenses, opex, total\s+operating\s+expenses, selling.*general.*administrative, sg&a, sga
OPERATING_EXPENSES_PATTERNS ==
    << << Lit(<< "o", "p", "e", "r", "a", "t", "i", "n", "g" >>), Spaces, Lit(<< "e", "x", "p", "e", "n", "s", "e", "s" >>) >>,
       << Lit(<< "o", "p", "e", "x" >>) >>,
       << Lit(<< "t", "o", "t", "a", "l" >>), Spaces, Lit(<< "o", "p", "e", "r", "a", "t", "i", "n", "g" >>), Spaces, Lit(<< "e", "x", "p", "e", "n", "s", "e", "s" >>) >>,
       << Lit(<< "s", "e", "l", "l", "i", "n", "g" >>), Anything, Lit(<< "g", "e", "n", "e", "r", "a", "l" >>), Anything, Lit(<< "a", "d", "m", "i", "n", "i", "s", "t", "r", "a", "t", "i", "v", "e" >>) >>,
       << Lit(<< "s", "g", "&", "a" >>) >>,
       << Lit(<< "s", "g", "a" >>) >> >>

\* operating\s+income, operating\s+profit, ebit, earnings\s+before\s+interest\s+and\s+tax
OPERATING_INCOME_PATTERNS ==
    << << Lit(<< "o", "p", "e", "r", "a", "t", "i", "n", "g" >>), Spaces, Lit(<< "i", "n", "c", "o", "m", "e" >>) >>,
       << Lit(<< "o", "p", "e", "r", "a", "t", "i", "n", "g" >>), Spaces, Lit(<< "p", "r", "o", "f", "i", "t" >>) >>,
       << Lit(<< "e", "b", "i", "t" >>) >>,
       << Lit(<< "e", "a", "r", "n", "i", "n", "g", "s" >>), Spaces, Lit(<< "b", "e", "f", "o", "r", "e" >>), Spaces, Lit(<< "i", "n", "t", "e", "r", "e", "s", "t" >>), Spaces, Lit(<< "a", "n", "d" >>), Spaces, Lit(<< "t", "a", "x" >>) >> >>

\* ebitda, earnings\s+before\s+interest.*tax.*depreciation.*amortization
EBITDA_PATTERNS ==
    << << Lit(<< "e", "b", "i", "t", "d", "a" >>) >>,
       << Lit(<< "e", "a", "r", "n", "i", "n", "g", "s" >>), Spaces, Lit(<< "b", "e", "f", "o", "r", "e" >>), Spaces, Lit(<< "i", "n", "t", "e", "r", "e", "s", "t" >>), Anything, Lit(<< "t", "a", "x" >>), Anything, Lit(<< "d", "e", "p", "r", "e", "c", "i", "a", "t", "i", "o", "n" >>), Anything, Lit(<< "a", "m", "o", "r", "t", "i", "z", "a", "t", "i", "o", "n" >>) >> >>

\* net\s+income, net\s+profit, net\s+earnings, profit\s+for\s+the\s+period, bottom\s+line
NET_INCOME_PATTERNS ==
    << << Lit(<< "n", "e", "t" >>), Spaces, Lit(<< "i", "n", "c", "o", "m", "e" >>) >>,
       << Lit(<< "n", "e", "t" >>), Spaces, Lit(<< "p", "r", "o", "f", "i", "t" >>) >>,
       << Lit(<< "n", "e", "t" >>), Spaces, Lit(<< "e", "a", "r", "n", "i", "n", "g", "s" >>) >>,
       << Lit(<< "p", "r", "o", "f", "i", "t" >>), Spaces, Lit(<< "f", "o", "r" >>), Spaces, Lit(<< "t", "h", "e" >>), Spaces, Lit(<< "p", "e", "r", "i", "o", "d" >>) >>,
       << Lit(<< "b", "o", "t", "t", "o", "m" >>), Spaces, Lit(<< "l", "i", "n", "e" >>) >> >>

LowerChar(c) ==
    CASE c = "A" -> "a" [] c = "B" -> "b" [] c = "C" -> "c"
      [] c = "D" -> "d" [] c = "E" -> "e" [] c = "F" -> "f"
      [] c = "G" -> "g" [] c = "H" -> "h" [] c = "I" -> "i"
      [] c = "J" -> "j" [] c = "K" -> "k" [] c = "L" -> "l"
      [] c = "M" -> "m" [] c = "N" -> "n" [] c = "O" -> "o"
      [] c = "P" -> "p" [] c = "Q" -> "q" [] c = "R" -> "r"
      [] c = "S" -> "s" [] c = "T" -> "t" [] c = "U" -> "u"
      [] c = "V" -> "v" [] c = "W" -> "w" [] c = "X" -> "x"
      [] c = "Y" -> "y" [] c = "Z" -> "z"
      [] OTHER -> c

\* str.lower()
Lower(s) == [ i \in 1..Len(s) |-> LowerChar(s[i]) ]

metric_definitions ==
    << [ metric_type |-> "revenue", metric_name |-> "Total Revenue",
         patterns |-> REVENUE_PATTERNS ],
       [ metric_type |-> "cogs", metric_name |-> "Cost of Goods Sold",
         patterns |-> COGS_PATTERNS ],
       [ metric_type |-> "gross_profit", metric_name |-> "Gross Profit",
         patterns |-> GROSS_PROFIT_PATTERNS ],
       [ metric_type |-> "operating_expenses", metric_name |-> "Operating Expenses",
         patterns |-> OPERATING_EXPENSES_PATTERNS ],
       [ metric_type |-> "operating_income", metric_name |-> "Operating Income",
         patterns |-> OPERATING_INCOME_PATTERNS ],
       [ metric_type |-> "ebitda", metric_name |-> "EBITDA",
         patterns |-> EBITDA_PATTERNS ],
       [ metric_type |-> "net_income", metric_name |-> "Net Income",
         patterns |-> NET_INCOME_PATTERNS ] >>

\* The pieces of the pattern from the k-th on match the content at pos.
RECURSIVE MatchFrom(_, _, _, _)
MatchFrom(pattern, k, content, pos) ==
    IF k > Len(pattern) THEN TRUE
    ELSE LET piece == pattern[k]
             left == Len(content) - pos + 1
         IN  CASE piece.kind = "literal" ->
                    /\ Len(piece.chars) <= left
                    /\ SubSeq(content, pos, pos + Len(piece.chars) - 1) = piece.chars
                    /\ MatchFrom(pattern, k + 1, content, pos + Len(piece.chars))
               [] piece.kind = "s+" ->
                    \E n \in 1..left :
                        /\ \A i \in pos..(pos + n - 1) : content[i] = " "
                        /\ MatchFrom(pattern, k + 1, content, pos + n)
               [] piece.kind = ".*" ->
                    \E n \in 0..left : MatchFrom(pattern, k + 1, content, pos + n)

\* re.search(pattern, content)
Search(pattern, content) ==
    \E pos \in 1..(Len(content) + 1) : MatchFrom(pattern, 1, content, pos)

\* One of the patterns is found in the lowered, stripped content of a cell.
MatchesLabel(cell, patterns) ==
    \E p \in 1..Len(patterns) : Search(patterns[p], Strip(Lower(cell.content)))

\* The characters _looks_like_number removes before it counts.
NumberCharacters == { ",", ".", "$", "(", ")", "-", " " }

Cleaned(text) ==
    LET Kept(c) == c \notin NumberCharacters IN SelectSeq(text, Kept)

LooksLikeNumber_AtLeastHalf(text) ==
    LET cleaned == Cleaned(text)
        digit_count == Cardinality({ i \in 1..Len(cleaned) : cleaned[i] \in Digits })
    IN  IF cleaned = << >> THEN FALSE
        ELSE 2 * digit_count >= Len(cleaned)

\* FinancialParser._looks_like_number(text);
\* digit_count / len(cleaned) > 0.5 is 2 * digit_count > len(cleaned)
LooksLikeNumber(text) ==
    LET cleaned == Cleaned(text)
        digit_count == Cardinality({ i \in 1..Len(cleaned) : cleaned[i] \in Digits })
    IN  IF cleaned = << >> THEN FALSE
        ELSE 2 * digit_count > Len(cleaned)

\* FinancialParser._find_value_cells(cells, label_cell, table): the places,
\* in table order, of the value cells of the label cell at place label_cell.
FindValueCells(cells, label_cell) ==
    LET label_row == cells[label_cell].row_index
        label_col == cells[label_cell].column_index
        IsValue(i) ==
            /\ cells[i].row_index = label_row
            /\ cells[i].column_index > label_col
            /\ Strip(cells[i].content) # << >>
            /\ LooksLikeNumber(Strip(cells[i].content))
    IN  SelectSeq([ i \in 1..Len(cells) |-> i ], IsValue)

\* Lines 176-195: the metrics appended for one label cell.
MetricsOfLabel(cells, label_cell, metric_type, metric_name) ==
    LET value_cells == FindValueCells(cells, label_cell)
        Appended(value_cell) ==
            LET parsed == ParseFinancialNumber(Str(cells[value_cell].content))
            IN  [ metric_type |-> metric_type,
                  metric_name |-> metric_name,
                  value |-> parsed.value,
                  currency |-> IF parsed.currency = NoneCurrency THEN "USD"
                               ELSE parsed.currency,
                  label_cell |-> label_cell,
                  value_cell |-> value_cell,
                  confidence |-> cells[value_cell].confidence ]
        Parsed(metric) == metric.value # NoneNumber
    IN  SelectSeq([ k \in 1..Len(value_cells) |-> Appended(value_cells[k]) ], Parsed)

\* The loop of lines 169-197 from the i-th cell on.
RECURSIVE ExtractFromCells(_, _, _, _, _)
ExtractFromCells(cells, i, metric_type, metric_name, patterns) ==
    IF i > Len(cells) THEN << >>
    ELSE (IF MatchesLabel(cells[i], patterns)
          THEN MetricsOfLabel(cells, i, metric_type, metric_name)
          ELSE << >>)
            \o ExtractFromCells(cells, i + 1, metric_type, metric_name, patterns)

ExtractMetricFromTable_FirstCell(table, metric_type, metric_name, patterns) ==
    LET matching == { i \in 1..Len(table.cells) : MatchesLabel(table.cells[i], patterns) }
    IN  IF matching = {} THEN << >>
        ELSE MetricsOfLabel(table.cells, CHOOSE i \in matching : \A j \in matching : i <= j,
                            metric_type, metric_name)

\* FinancialParser._extract_metric_from_table(table, metric_type, metric_name, patterns)
ExtractMetricFromTable(table, metric_type, metric_name, patterns) ==
    ExtractFromCells(table.cells, 1, metric_type, metric_name, patterns)

RECURSIVE ExtractDefinitions(_, _)
ExtractDefinitions(table, k) ==
    IF k > Len(metric_definitions) THEN << >>
    ELSE ExtractMetricFromTable(table, metric_definitions[k].metric_type,
                                metric_definitions[k].metric_name,
                                metric_definitions[k].patterns)
            \o ExtractDefinitions(table, k + 1)

\* FinancialParser.extract_income_statement_metrics(table)
ExtractIncomeStatementMetrics(table) == ExtractDefinitions(table, 1)

(***************************************************************************)
(* The financial parser on its own: one call on one table or one text.     *)
(***************************************************************************)
MaxRows == 3            \* rows of an input table

MaxTextLen == 4         \* characters of an input text of _looks_like_number

\* The rows a table is made of: the contents of the cells, left to right.
InputRows ==
    << << << "T", "o", "t", "a", "l", " ", "R", "e", "v", "e", "n", "u", "e" >>, << "1", ",", "0", "0", "0" >> >>,
       << << "R", "e", "v", "e", "n", "u", "e" >>, << "5", "M" >> >>,
       << << "C", "o", "s", "t", " ", "o", "f", " ", "R", "e", "v", "e", "n", "u", "e" >>, << "(", "6", "0", "0", ")" >> >>,
       << << "N", "e", "t", " ", " ", "I", "n", "c", "o", "m", "e" >>, << "$", "1", ",", "0", "0", "0" >>, << "(", "6", "0", "0", ")" >> >>,
       << << "E", "B", "I", "T", "D", "A" >>, << "n", "/", "a" >> >>,
       << << "N", "o", "t", "e", "s" >>, << " " >>, << "$" >> >>,
       << << "1", ",", "0", "0", "0" >>, << "T", "o", "t", "a", "l", " ", "R", "e", "v", "e", "n", "u", "e" >> >>,
       << << " ", "g", "r", "o", "s", "s", " ", "p", "r", "o", "f", "i", "t", " " >>, << "1", ".", "0", ".", "0" >>, << "2", ".", "5", "M" >> >> >>

InputConfidence == 90

\* The cells of the rows, row by row, in table cell order.
RECURSIVE CellsOf(_, _)
CellsOf(rows, row_index) ==
    IF row_index >= Len(rows) THEN << >>
    ELSE LET row == InputRows[rows[row_index + 1]]
         IN  [ column_index \in 1..Len(row) |->
                    [ row_index |-> row_index,
                      column_index |-> column_index - 1,
                      content |-> row[column_index],
                      confidence |-> InputConfidence ] ]
                \o CellsOf(rows, row_index + 1)

RECURSIVE RowLists(_)
RowLists(n) ==
    IF n = 0 THEN { << >> }
    ELSE LET shorter == RowLists(n - 1)
         IN  shorter \cup { Append(l, r) : l \in shorter, r \in 1..Len(InputRows) }

InputTables == { [ cells |-> CellsOf(rows, 0) ] : rows \in RowLists(MaxRows) }

TextChars == << "5", "M", ",", " ", "-" >>

RECURSIVE Texts(_)
Texts(n) ==
    IF n = 0 THEN { << >> }
    ELSE LET shorter == Texts(n - 1)
         IN  shorter \cup { Append(t, TextChars[i]) : t \in shorter, i \in 1..Len(TextChars) }

EmptyTable == [ cells |-> << >> ]

FinancialParserInit ==
    /\ PipelineStart(CleanPdf, NoBudget)
    /\ vr = NewValidationResult
    /\ \/ \E table \in InputTables :
            fn = [ call |-> "none", table |-> table, text |-> << >> ]
       \/ \E text \in Texts(MaxTextLen) :
            fn = [ call |-> "none", table |-> EmptyTable, text |-> text ]

\* FinancialParser._looks_like_number(text), on a text or on the content of
\* a cell of the table
CallLooksLikeNumber ==
    /\ fn.call = "none"
    /\ \E text \in { fn.text } \cup { fn.table.cells[i].content : i \in 1..Len(fn.table.cells) } :
            fn' = [ fn EXCEPT !.call = "_looks_like_number", !.text = text ]
                    @@ [ result |-> LooksLikeNumber(text) ]
    /\ UNCHANGED << pipeline_vars, vr >>

\* FinancialParser._find_value_cells(cells, label_cell, table)
CallFindValueCells ==
    /\ fn.call = "none"
    /\ \E label_cell \in 1..Len(fn.table.cells) :
            fn' = [ fn EXCEPT !.call = "_find_value_cells" ]
                    @@ [ label_cell |-> label_cell,
                         result |-> FindValueCells(fn.table.cells, label_cell) ]
    /\ UNCHANGED << pipeline_vars, vr >>

\* FinancialParser._extract_metric_from_table(table, metric_type, metric_name, patterns)
CallExtractMetricFromTable ==
    /\ fn.call = "none"
    /\ fn.table.cells # << >>
    /\ \E k \in 1..Len(metric_definitions) :
            fn' = [ fn EXCEPT !.call = "_extract_metric_from_table" ]
                    @@ [ metric_type |-> metric_definitions[k].metric_type,
                         patterns |-> metric_definitions[k].patterns,
                         result |-> ExtractMetricFromTable(fn.table,
                                        metric_definitions[k].metric_type,
                                        metric_definitions[k].metric_name,
                                        metric_definitions[k].patterns) ]
    /\ UNCHANGED << pipeline_vars, vr >>

\* FinancialParser.extract_income_statement_metrics(table)
CallExtractIncomeStatementMetrics ==
    /\ fn.call = "none"
    /\ fn.table.cells # << >>
    /\ fn' = [ fn EXCEPT !.call = "extract_income_statement_metrics" ]
                @@ [ result |-> ExtractIncomeStatementMetrics(fn.table) ]
    /\ UNCHANGED << pipeline_vars, vr >>

FinancialParserNext ==
    \/ CallLooksLikeNumber
    \/ CallFindValueCells
    \/ CallExtractMetricFromTable
    \/ CallExtractIncomeStatementMetrics

SpecFinancialParser == FinancialParserInit /\ [][FinancialParserNext]_vars

(***************************************************************************)
(* C17: which label cells contribute metrics of a type.                    *)
(***************************************************************************)
\* The cells of the table of the call whose content matches one of the
\* label patterns of the metric type of the call, by their places.
MatchingCells ==
    { i \in 1..Len(fn.table.cells) : MatchesLabel(fn.table.cells[i], fn.patterns) }

FirstMatchingCell == CHOOSE i \in MatchingCells : \A j \in MatchingCells : i <= j

\* The label cells the metrics of the result were taken from.
ContributingCells == { fn.result[k].label_cell : k \in 1..Len(fn.result) }

\* The value cells of a label cell whose content parses as a number.
ParsedValueCells(label_cell) ==
    LET value_cells == FindValueCells(fn.table.cells, label_cell)
    IN  { value_cells[k] : k \in { n \in 1..Len(value_cells) :
            ParseFinancialNumber(Str(fn.table.cells[value_cells[n]].content)).value
                # NoneNumber } }

\* C17 as stated: _extract_metric_from_table takes value cells from the first
\* matching cell only; a matching cell after the first contributes no metric.
C17_FirstCellOnly ==
    fn.call = "_extract_metric_from_table"
        => \A k \in 1..Len(fn.result) : fn.result[k].label_cell = FirstMatchingCell

\* C17 amended: _extract_metric_from_table takes value cells from every
\* matching cell, in table cell order: the result holds exactly one metric
\* per matching cell and value cell of it that parses, the matching cells
\* after the first included, ordered by label cell and then by value cell.
C17_EveryMatchingCell ==
    fn.call = "_extract_metric_from_table"
        => /\ { << fn.result[k].label_cell, fn.result[k].value_cell >> :
                    k \in 1..Len(fn.result) }
                = { << l, v >> \in MatchingCells \X (1..Len(fn.table.cells)) :
                        v \in ParsedValueCells(l) }
           /\ \A k \in 1..Len(fn.result) : fn.result[k].metric_type = fn.metric_type
           /\ \A j, k \in 1..Len(fn.result) :
                j < k => \/ fn.result[j].label_cell < fn.result[k].label_cell
                         \/ /\ fn.result[j].label_cell = fn.result[k].label_cell
                            /\ fn.result[j].value_cell < fn.result[k].value_cell

\* Two cells of the table match the revenue patterns, and the second one has
\* contributed a revenue metric as well as the first.
C17_Witness ==
    /\ fn.call = "_extract_metric_from_table"
    /\ fn.metric_type = "revenue"
    /\ Cardinality(MatchingCells) = 2
    /\ ContributingCells = MatchingCells

(***************************************************************************)
(* C18: the looks-like-a-number test of a candidate value cell.            *)
(***************************************************************************)
\* What is left of a text without ',', '.', '$', '(', ')', '-' and spaces.
Remaining(text) ==
    LET Removed(c) == c \in { ",", ".", "$", "(", ")", "-", " " }
        Stays(c) == ~Removed(c)
    IN  SelectSeq(text, Stays)

DigitsIn(text) == Cardinality({ i \in 1..Len(text) : text[i] \in Digits })

AtLeastHalfDigits(text) ==
    Remaining(text) # << >> /\ 2 * DigitsIn(Remaining(text)) >= Len(Remaining(text))

MoreThanHalfDigits(text) ==
    Remaining(text) # << >> /\ 2 * DigitsIn(Remaining(text)) > Len(Remaining(text))

ExactlyHalfDigits(text) ==
    Remaining(text) # << >> /\ 2 * DigitsIn(Remaining(text)) = Len(Remaining(text))

\* The cells in the row of the label cell of the call, to its right.
RightOfLabel ==
    { i \in 1..Len(fn.table.cells) :
        /\ fn.table.cells[i].row_index = fn.table.cells[fn.label_cell].row_index
        /\ fn.table.cells[i].column_index > fn.table.cells[fn.label_cell].column_index }

ValueCellsFound == { fn.result[k] : k \in 1..Len(fn.result) }

\* C18 as stated: a text looks like a number, and a cell to the right of the
\* label is a candidate value cell, iff something remains of the content and
\* at least half of it is digits; exactly half is accepted.
C18_AtLeastHalf ==
    /\ fn.call = "_looks_like_number" => (fn.result <=> AtLeastHalfDigits(fn.text))
    /\ fn.call = "_find_value_cells"
        => \A i \in RightOfLabel :
                i \in ValueCellsFound <=> AtLeastHalfDigits(fn.table.cells[i].content)

\* C18 amended: a text looks like a number, and a cell to the right of the
\* label is a candidate value cell, iff something remains of the (trimmed)
\* content and more than half of it is digits; exactly half (such as 5M) is
\* rejected.
C18_MoreThanHalf ==
    /\ fn.call = "_looks_like_number" => (fn.result <=> MoreThanHalfDigits(fn.text))
    /\ fn.call = "_find_value_cells"
        => /\ ValueCellsFound \subseteq RightOfLabel
           /\ \A i \in RightOfLabel :
                i \in ValueCellsFound
                    <=> MoreThanHalfDigits(Strip(fn.table.cells[i].content))

\* A cell to the right of its label whose content is half digits (5M) has
\* been passed over by _find_value_cells.
C18_Witness ==
    /\ fn.call = "_find_value_cells"
    /\ \E i \in RightOfLabel :
            /\ ExactlyHalfDigits(fn.table.cells[i].content)
            /\ i \notin ValueCellsFound

(***************************************************************************)
(* C21: confidence of the metrics of a spreadsheet.                        *)
(***************************************************************************)
\* The extraction worker has just persisted the metrics of a spreadsheet.
SheetExtracted ==
    /\ document.document_type = "XLSX"
    /\ ew.pc = "persisted"
    /\ metrics_store # << >>

\* C21: every metric extracted from a spreadsheet has confidence_score 1.0
\* (100), whatever the content of its value cell, and is not flagged for
\* review at extraction.
C21_SheetConfidence ==
    SheetExtracted
        => \A i \in 1..Len(metrics_store) :
                /\ metrics_store[i].confidence_score = 100
                /\ ~metrics_store[i].flagged_for_review

(***************************************************************************)
(* C22: the verdict and the order of the metric list.                      *)
(***************************************************************************)
\* The list with the metrics at places i and i + 1 exchanged; every
\* permutation of a list is a chain of such exchanges.
Swapped(metrics, i) ==
    [ k \in 1..Len(metrics) |->
        IF k = i THEN metrics[i + 1] ELSE IF k = i + 1 THEN metrics[i] ELSE metrics[k] ]

\* The verdict of a ValidationResult: its status and its errors and
\* warnings as sets.
Verdict(result) ==
    [ validation_status |-> result.validation_status,
      errors |-> Elements(result.errors),
      warnings |-> Elements(result.warnings) ]

\* C22: validate_all returns the same validation_status and the same sets of
\* errors and warnings for the metric list of the call and for the same
\* metrics in another order (here: any two neighbours exchanged), the
\* document confidence and the thresholds being the same.
C22_OrderIndependent ==
    fn.call = "validate_all"
        => \A i \in 1..(Len(fn.metrics) - 1) :
                Verdict(ValidateAll(Swapped(fn.metrics, i), fn.doc_confidence))
                    = Verdict(vr)

(***************************************************************************)
(* C23: the timestamps reported by the status endpoint.                    *)
(***************************************************************************)
\* The timestamp of the earliest event of the log of one of the types, None
\* when the log has none.
EarliestOf(l, event_types) ==
    LET places == { i \in 1..Len(l) : l[i].event_type \in event_types }
    IN  IF places = {} THEN None
        ELSE l[CHOOSE i \in places : \A j \in places : i <= j].event_timestamp

\* The status endpoint has just answered from the log, not from the cache.
StatusComputed ==
    /\ response.handler = "status"
    /\ response.status_code = 200
    /\ ~response.from_cache

\* C23: the status endpoint reports as uploaded_at the timestamp of the
\* earliest queued or ingestion_started event of the document and as
\* started_processing_at that of its earliest extraction_started event (None
\* when there is none), however many events were appended after them.
C23_EarliestTimestamps ==
    StatusComputed
        => /\ response.status_info.timestamps.uploaded_at
                = EarliestOf(log, { "queued", "ingestion_started" })
           /\ response.status_info.timestamps.started_processing_at
                = EarliestOf(log, { "extraction_started" })

(***************************************************************************)
(* C24: a rejected retry request changes nothing.                          *)
(***************************************************************************)
\* C24: a step in which the retry handler answers 400 (not eligible) or 404
\* (the blob is gone) enqueues no message and appends no event: the queues,
\* the log, the stored metrics and results and the count of accepted
\* retries are as before.
C24_RejectedRetryChangesNothing ==
    [][ (/\ response'.handler = "retry"
         /\ response'.status_code \in { 400, 404 })
            => UNCHANGED << log, ingestion_queue, extraction_queue,
                            validation_queue, metrics_store, extraction_results,
                            retry_inflight, accepted >> ]_vars

\* A retry of a failed document has just been answered 404 because its blob
\* is gone; nothing waits in the extraction queue and the log has no
\* retry_initiated event.
C24_Witness ==
    /\ response.handler = "retry"
    /\ response.status_code = 404
    /\ response.eligibility.eligible
    /\ ~blob_exists
    /\ extraction_queue = << >>
    /\ RetryInitiatedCount(log) = 0

(***************************************************************************)
(* C25: the metrics one validation run reads.                              *)
(***************************************************************************)
\* C25: the metric list a validation run validates (the list it reads when
\* it goes from started to validated) holds the metrics of one extraction
\* attempt and none persisted by an earlier attempt: it is no longer than
\* the list one extraction of the document produces.
C25_OnlyThisAttempt ==
    [][ (vw.pc = "started" /\ vw'.pc = "validated")
            => Len(metrics_store) <= Len(document.raw_metrics) ]_vars

(***************************************************************************)
(* C26: a failure that is not retry-eligible.                              *)
(***************************************************************************)
\* The log holds a failed event recorded with retry_eligible = False.
RecordedNotRetryEligible(l) ==
    \E i \in 1..Len(l) :
        l[i].event_type = "failed" /\ "retry_eligible: False" \in l[i].event_data

\* C26: once a failed event with retry_eligible = False is in the log of the
\* document, no step puts a message for it on the extraction queue: not the
\* step of the extraction worker that records the event (the message is
\* completed, not delivered again), and no later step of the retry handler.
C26_NeverRequeued ==
    [][ RecordedNotRetryEligible(log')
            => Len(extraction_queue') <= Len(extraction_queue) ]_vars

(***************************************************************************)
(* C27: a completed document has completed every stage.                    *)
(***************************************************************************)
\* C27: whenever the status the endpoint derives from the log is completed,
\* the derived completion_percentage is 100 and stages_completed holds the
\* four stages.
C27_CompletedIsWhole ==
    (StatusComputed /\ response.status_info.status = "completed")
        => /\ response.status_info.progress.completion_percentage = 100
           /\ Len(response.status_info.progress.stages_completed) = TOTAL_STAGES

(***************************************************************************)
(* C28: the reported progress as the log grows.                            *)
(***************************************************************************)
\* The completion_percentage an uncached status query derives from a log.
PercentageOf(l) ==
    DetermineStatusFromLogs(QueryProcessingLogs(l, LOG_QUERY_LIMIT))
        .progress.completion_percentage

\* C28: the completion_percentage derived by an uncached status query never
\* decreases as events are appended to the log of the document: after every
\* step that appends events the derived percentage is at least what it was
\* before, also when the log holds more than 20 events.
C28_ProgressNeverDecreases ==
    [][ Len(log') > Len(log) => PercentageOf(log') >= PercentageOf(log) ]_vars

(***************************************************************************)
(* C29: the review flag of a persisted metric.                             *)
(***************************************************************************)
\* The flag of the metric is what the threshold says of its confidence.
FlagFollowsConfidence(metric) ==
    metric.flagged_for_review = (metric.confidence_score < METRIC_THRESHOLD)

\* C29: with a constant metric threshold every persisted metric has
\* flagged_for_review = (confidence_score < metric threshold) from the moment
\* the extraction worker creates it, so the flagging step of the validation
\* worker changes no metric, whatever the verdict of the validation.
C29_FlagSetAtCreation ==
    /\ [](\A i \in 1..Len(metrics_store) :
            FlagFollowsConfidence(metrics_store[i]))
    /\ [][ (vw.pc = "started" /\ vw'.pc = "validated") =>
                /\ metrics_store' = metrics_store
                /\ vw'.patched = {} ]_vars

\* The validation worker has finished a document that needs review and whose
\* metrics lie on both sides of the threshold, and has patched none.
C29_Witness ==
    /\ vw.pc = "validated"
    /\ RequiresManualReview(vr)
    /\ vw.patched = {}
    /\ \E i \in 1..Len(metrics_store) :
            /\ metrics_store[i].confidence_score < METRIC_THRESHOLD
            /\ metrics_store[i].flagged_for_review
    /\ \E i \in 1..Len(metrics_store) :
            /\ metrics_store[i].confidence_score >= METRIC_THRESHOLD
            /\ ~metrics_store[i].flagged_for_review

(***************************************************************************)
(* C30: the status cache and the age of an answer.                         *)
(***************************************************************************)
\* The events of which the clock of the cache entry says that they were
\* appended at least CACHE_TTL_SECONDS ago: those the log held when an entry
\* that has since reached the TTL was stored.
EventsOlderThanTtl ==
    IF status_cache.cached /\ status_cache.age >= CACHE_TTL_SECONDS
    THEN 1..status_cache.computed_at
    ELSE {}

\* The events a status computed from the log l is derived from.
EventsQueried(l) ==
    { k \in 1..Len(l) : k > Len(l) - LOG_QUERY_LIMIT }

\* C30: a status query returns a cached response only if that response was
\* computed less than 10 seconds earlier; an entry aged 10 seconds or more is
\* removed and the status recomputed from the log; a query that finds no log
\* stores nothing in the cache; so every event appended at least 10 seconds
\* before a query is reflected in its answer: it is among the events the
\* answer is derived from.
C30_StalenessBounded ==
    [][ response'.handler = "status" =>
            /\ response'.from_cache =>
                    /\ status_cache.cached
                    /\ status_cache.age < CACHE_TTL_SECONDS
                    /\ response'.status_info = status_cache.status_info
            /\ (status_cache.cached
                    /\ status_cache.age >= CACHE_TTL_SECONDS) =>
                    /\ ~response'.from_cache
                    /\ status_cache' # status_cache
                    /\ response'.status_code = 200 =>
                            /\ status_cache'.age = 0
                            /\ response'.status_info =
                                    DetermineStatusFromLogs(
                                        QueryProcessingLogs(
                                            log, LOG_QUERY_LIMIT))
            /\ response'.status_code = 404 => ~status_cache'.cached
            /\ response'.status_code = 200 =>
                    EventsOlderThanTtl \subseteq EventsQueried(log) ]_vars

====
